---------------------------- MODULE Spec2Model ----------------------------
(***************************************************************************)
(* Model of the v1.0.0 query schema of ckanext-versioned-datastore:        *)
(* v1_0_0Schema (the translator, with its geojson lookup) and v1_0_0Hasher *)
(* (the canonical string / digest builder), lib/query/v1_0_0.py.           *)
(*                                                                         *)
(* Python unicode strings are sequences of one-character strings, so that  *)
(* formatting, joining and the lexicographic order used by sorted() are    *)
(* computed, not assumed.  A Python dict is a sequence of entries in its   *)
(* iteration order when the code iterates it (next(iter(d.items()))), and  *)
(* a function whose DOMAIN is its key set when the code only looks keys    *)
(* up (options[...], options.get(...), in).                                *)
(*                                                                         *)
(* The last sections model the datastore side: the field cache of          *)
(* get_fields (lib/basic_query/utils.py), the columns of DatastoreFeeder   *)
(* (lib/ingestion/feeders.py), and the actions datastore_upsert and        *)
(* datastore_get_resource_versions (logic/action.py), each under a         *)
(* specification of its own.                                               *)
(***************************************************************************)
EXTENDS Integers, Sequences, FiniteSets, TLC

\* ------------------------------------------------------------------------
\* State
\* ------------------------------------------------------------------------
\* the state of the schema object
VARIABLES
  geojson    \* self.geojson: category -> name -> MultiPolygon

\* ------------------------------------------------------------------------
\* Bounds of the model
\* ------------------------------------------------------------------------
\* largest number of members of a top-level group
MaxMembers == 2
\* largest number of members of a group nested in another group
MaxInner == 2
\* largest number of names in a leaf's fields list
MaxFields == 2
\* number of threads that call the schema at the same time
MaxThreads == 2
\* largest number of features of the country file
MaxFeatures == 2

\* ------------------------------------------------------------------------
\* Strings
\* ------------------------------------------------------------------------
\* the printable ASCII characters in code point order, 32 .. 126 (the grave
\* accent, 96, is spelled out: it cannot be written in a string here)
ASCII ==
  << " ", "!", "\"", "#", "$", "%", "&", "'", "(", ")", "*", "+", ",", "-",
     ".", "/", "0", "1", "2", "3", "4", "5", "6", "7", "8", "9", ":", ";",
     "<", "=", ">", "?", "@", "A", "B", "C", "D", "E", "F", "G", "H", "I",
     "J", "K", "L", "M", "N", "O", "P", "Q", "R", "S", "T", "U", "V", "W",
     "X", "Y", "Z", "[", "\\", "]", "^", "_", "GRAVE", "a", "b", "c", "d", "e",
     "f", "g", "h", "i", "j", "k", "l", "m", "n", "o", "p", "q", "r", "s",
     "t", "u", "v", "w", "x", "y", "z", "{", "|", "}", "~" >>

\* a character outside ASCII: LATIN SMALL LETTER E WITH ACUTE, u'\xe9',
\* spelled out like the grave accent
E_ACUTE == "U+00E9"

\* code point of each character
CodePoint ==
  [c \in {ASCII[i] : i \in 1..Len(ASCII)} \cup {E_ACUTE} |->
     IF c = E_ACUTE THEN 233
     ELSE 31 + CHOOSE i \in 1..Len(ASCII) : ASCII[i] = c]

\* ord(c)
Ord(c) == CodePoint[c]

\* a < b in the order Python gives unicode strings (by code point, a proper
\* prefix first)
RECURSIVE StrLess(_, _)
StrLess(a, b) ==
  IF b = <<>> THEN FALSE
  ELSE IF a = <<>> THEN TRUE
  ELSE IF Head(a) = Head(b) THEN StrLess(Tail(a), Tail(b))
  ELSE Ord(Head(a)) < Ord(Head(b))

\* insert string s into the sorted list of strings l
RECURSIVE Insert(_, _)
Insert(s, l) ==
  IF l = <<>> THEN <<s>>
  ELSE IF StrLess(s, Head(l)) THEN <<s>> \o l
  ELSE <<Head(l)>> \o Insert(s, Tail(l))

\* sorted(l) for a list of strings
RECURSIVE Sorted(_)
Sorted(l) == IF l = <<>> THEN <<>> ELSE Insert(Head(l), Sorted(Tail(l)))

\* sep.join(l)
RECURSIVE Join(_, _)
Join(sep, l) ==
  IF l = <<>> THEN <<>>
  ELSE IF Len(l) = 1 THEN Head(l)
  ELSE Head(l) \o sep \o Join(sep, Tail(l))

\* decimal digits of a natural number
RECURSIVE NatStr(_)
NatStr(n) ==
  IF n < 10 THEN <<ASCII[17 + n]>>
  ELSE NatStr(n \div 10) \o <<ASCII[17 + (n % 10)]>>

\* u'{}'.format(n) for an int n
IntStr(n) == IF n < 0 THEN <<"-">> \o NatStr(0 - n) ELSE NatStr(n)

\* ------------------------------------------------------------------------
\* Values of the query document
\* ------------------------------------------------------------------------
\* a JSON string value and a JSON integer value; None
StrV(s) == [str |-> s]
NumV(n) == [num |-> n]
NoneV == [none |-> TRUE]

\* u'{}'.format(v)
Format(v) == IF "num" \in DOMAIN v THEN IntStr(v.num) ELSE v.str

\* options.get(key, default)
Get(options, key, default) ==
  IF key \in DOMAIN options THEN options[key] ELSE default

\* ------------------------------------------------------------------------
\* String literals of the source
\* ------------------------------------------------------------------------
S_and == <<"a", "n", "d">>
S_or == <<"o", "r">>
S_not == <<"n", "o", "t">>
S_string_equals == <<"s", "t", "r", "i", "n", "g", "_", "e", "q", "u", "a", "l", "s", ":">>
S_string_contains ==
  <<"s", "t", "r", "i", "n", "g", "_", "c", "o", "n", "t", "a", "i", "n", "s", ":">>
S_number_equals == <<"n", "u", "m", "b", "e", "r", "_", "e", "q", "u", "a", "l", "s", ":">>
S_number_range == <<"n", "u", "m", "b", "e", "r", "_", "r", "a", "n", "g", "e", ":">>
S_exists == <<"e", "x", "i", "s", "t", "s", ":">>
S_geo_exists == <<"g", "e", "o", "_", "e", "x", "i", "s", "t", "s">>
S_geo_point == <<"g", "e", "o", "_", "p", "o", "i", "n", "t", ":">>
S_geo_named_area ==
  <<"g", "e", "o", "_", "n", "a", "m", "e", "d", "_", "a", "r", "e", "a", ":">>
S_geo_custom_area ==
  <<"g", "e", "o", "_", "c", "u", "s", "t", "o", "m", "_", "a", "r", "e", "a", ":">>
S_search == <<"s", "e", "a", "r", "c", "h", ":">>
S_filters == <<"f", "i", "l", "t", "e", "r", "s", ":">>
S_m == <<"m">>
S_data == <<"d", "a", "t", "a", ".">>
S_full == <<".", "f", "u", "l", "l">>
S_number == <<".", "n", "u", "m", "b", "e", "r">>
S_meta_all == <<"m", "e", "t", "a", ".", "a", "l", "l">>
S_meta_geo == <<"m", "e", "t", "a", ".", "g", "e", "o">>

\* ------------------------------------------------------------------------
\* v1_0_0Hasher
\* ------------------------------------------------------------------------
\* the result of a hasher method: the string it returns, or the exception
\* it raises
OkS(s) == [err |-> "none", s |-> s]
ErrS(e) == [err |-> e, s |-> <<>>]

\* the names n for which v1_0_0Hasher has an attribute create_<n>
HasherMethods ==
  {"group_or_term", "and", "or", "not", "string_equals", "string_contains",
   "number_equals", "number_range", "exists", "geo_point", "geo_named_area",
   "geo_custom_area"}

\* the fields joined in list order
HashFields_Unsorted(options) == Join(<<",">>, options["fields"])

\* u','.join(sorted(options[u'fields']))
HashFields(options) == Join(<<",">>, Sorted(options["fields"]))

\* u'<prefix>{};{}'.format(fields, options[u'value'])
HashFieldsValue(prefix, options) ==
  IF "fields" \notin DOMAIN options \/ "value" \notin DOMAIN options
    THEN ErrS("KeyError")
    ELSE OkS(prefix \o HashFields(options) \o <<";">> \o Format(options["value"]))

Hasher_create_string_equals(options) == HashFieldsValue(S_string_equals, options)

Hasher_create_string_contains(options) == HashFieldsValue(S_string_contains, options)

Hasher_create_number_equals(options) == HashFieldsValue(S_number_equals, options)

\* create_number_range of the hasher with less_than_inclusive read with a
\* default of false
Hasher_create_number_range_Exclusive(options) ==
  IF "fields" \notin DOMAIN options THEN ErrS("KeyError")
  ELSE
    LET less_than == Get(options, "less_than", NoneV)
        less_than_inclusive == Get(options, "less_than_inclusive", FALSE)
        greater_than == Get(options, "greater_than", NoneV)
        greater_than_inclusive == Get(options, "greater_than_inclusive", TRUE)
        h0 == S_number_range \o HashFields(options) \o <<";">>
        h1 == IF less_than # NoneV
                THEN h0 \o <<"<">>
                        \o (IF less_than_inclusive THEN <<"=">> ELSE <<>>)
                        \o Format(less_than)
                ELSE h0
        h2 == IF greater_than # NoneV
                THEN h1 \o <<">">>
                        \o (IF greater_than_inclusive THEN <<"=">> ELSE <<>>)
                        \o Format(greater_than)
                ELSE h1
    IN OkS(h2)

Hasher_create_number_range(options) ==
  IF "fields" \notin DOMAIN options THEN ErrS("KeyError")
  ELSE
    LET less_than == Get(options, "less_than", NoneV)
        less_than_inclusive == Get(options, "less_than_inclusive", TRUE)
        greater_than == Get(options, "greater_than", NoneV)
        greater_than_inclusive == Get(options, "greater_than_inclusive", TRUE)
        h0 == S_number_range \o HashFields(options) \o <<";">>
        h1 == IF less_than # NoneV
                THEN h0 \o <<"<">>
                        \o (IF less_than_inclusive THEN <<"=">> ELSE <<>>)
                        \o Format(less_than)
                ELSE h0
        h2 == IF greater_than # NoneV
                THEN h1 \o <<">">>
                        \o (IF greater_than_inclusive THEN <<"=">> ELSE <<>>)
                        \o Format(greater_than)
                ELSE h1
    IN OkS(h2)

Hasher_create_exists(options) ==
  IF Get(options, "geo_field", FALSE) THEN OkS(S_geo_exists)
  ELSE IF "fields" \notin DOMAIN options THEN ErrS("KeyError")
  ELSE OkS(S_exists \o HashFields(options))

Hasher_create_geo_point(options) ==
  LET distance == Format(Get(options, "radius", NumV(0)))
                    \o Format(Get(options, "radius_unit", StrV(S_m)))
  IN IF "latitude" \notin DOMAIN options \/ "longitude" \notin DOMAIN options
       THEN ErrS("KeyError")
       ELSE OkS(S_geo_point \o distance \o <<";">> \o Format(options["latitude"])
                  \o <<";">> \o Format(options["longitude"]))

\* the string of a named area when the hasher consults the lookup of the
\* schema: a name the lookup does not hold is marked
Hasher_create_geo_named_area_Lookup(options) ==
  IF options = <<>> THEN ErrS("StopIteration")
  ELSE LET category == Head(options)[1]
           name == Head(options)[2]
           known == category \in DOMAIN geojson /\ name \in DOMAIN geojson[category]
       IN OkS(S_geo_named_area \o category \o <<";">> \o name
                \o (IF known THEN <<>> ELSE <<"?">>))

\* options is a dict in iteration order: a sequence of <<category, name>>
Hasher_create_geo_named_area(options) ==
  IF options = <<>> THEN ErrS("StopIteration")
  ELSE OkS(S_geo_named_area \o Head(options)[1] \o <<";">> \o Head(options)[2])

\* the points of a ring joined in sorted order
Hasher_build_geo_polygon_query_Sorted(points) ==
  Join(<<",">>, Sorted([i \in 1..Len(points) |->
                          <<"[">> \o IntStr(points[i][2]) \o <<",">>
                            \o IntStr(points[i][1]) \o <<"]">>]))

\* u','.join(u'[{},{}]'.format(point[1], point[0]) for point in points)
Hasher_build_geo_polygon_query(points) ==
  Join(<<",">>, [i \in 1..Len(points) |->
                   <<"[">> \o IntStr(points[i][2]) \o <<",">>
                     \o IntStr(points[i][1]) \o <<"]">>])

\* u'{}'.format(l) for a list l of unicode strings: the repr of the list
ListRepr(l) ==
  <<"[">> \o Join(<<",", " ">>, [i \in 1..Len(l) |-> <<"u", "'">> \o l[i] \o <<"'">>])
    \o <<"]">>

\* the string of one polygon with the holes in input order
HashPolygon_UnsortedHoles(polygon) ==
  LET outer == polygon[1]
      holes == Tail(polygon)
      outer_query == Hasher_build_geo_polygon_query(outer)
  IN IF holes # <<>>
       THEN LET holes_queries ==
                  [i \in 1..Len(holes) |-> Hasher_build_geo_polygon_query(holes[i])]
            IN outer_query \o <<"/">> \o ListRepr(holes_queries)
       ELSE outer_query

\* the string of one polygon of a geo_custom_area
HashPolygon(polygon) ==
  LET outer == polygon[1]
      holes == Tail(polygon)
      outer_query == Hasher_build_geo_polygon_query(outer)
  IN IF holes # <<>>
       THEN LET holes_queries ==
                  Sorted([i \in 1..Len(holes) |-> Hasher_build_geo_polygon_query(holes[i])])
            IN outer_query \o <<"/">> \o ListRepr(holes_queries)
       ELSE outer_query

Hasher_create_geo_custom_area(coordinates) ==
  IF \E i \in 1..Len(coordinates) : coordinates[i] = <<>> THEN ErrS("IndexError")
  ELSE OkS(S_geo_custom_area
             \o Join(<<";">>, [i \in 1..Len(coordinates) |-> HashPolygon(coordinates[i])]))

\* u'<op>:[{}]'.format(u'|'.join(members))
HashGroup(op, members) == op \o <<":", "[">> \o Join(<<"|">>, members) \o <<"]">>

\* the members left in group order
HashSortMembers_Unsorted(members) == members

\* sorted(...): the members of a group put in canonical order
HashSortMembers(members) == Sorted(members)

RECURSIVE Hasher_create_group_or_term(_)
RECURSIVE HashMembers(_)

\* the generator (self.create_group_or_term(member) for member in group),
\* consumed in order: the list of strings, or the first exception
HashMembers(group) ==
  IF group = <<>> THEN [err |-> "none", l |-> <<>>]
  ELSE LET first == Hasher_create_group_or_term(Head(group))
       IN IF first.err # "none" THEN [err |-> first.err, l |-> <<>>]
          ELSE LET rest == HashMembers(Tail(group))
               IN IF rest.err # "none" THEN rest
                  ELSE [err |-> "none", l |-> <<first.s>> \o rest.l]

\* create_and and create_or with a group of one member collapsed to the
\* string of the member
Hasher_create_group_Collapse(op, group) ==
  LET members == HashMembers(group)
  IN IF members.err # "none" THEN ErrS(members.err)
     ELSE IF Len(members.l) = 1 /\ op # S_not THEN OkS(members.l[1])
     ELSE OkS(HashGroup(op, HashSortMembers(members.l)))

\* create_and, create_or and create_not of the hasher
Hasher_create_group(op, group) ==
  LET members == HashMembers(group)
  IN IF members.err # "none" THEN ErrS(members.err)
     ELSE OkS(HashGroup(op, HashSortMembers(members.l)))

\* next(iter(group_or_term.items())): the <<key, options>> pair that comes
\* first in the dict's iteration order
FirstItem(group_or_term) == Head(group_or_term)

Hasher_create_group_or_term(group_or_term) ==
  IF group_or_term = <<>> THEN ErrS("StopIteration")
  ELSE
    LET type == FirstItem(group_or_term)[1]
        options == FirstItem(group_or_term)[2]
    IN IF type \notin HasherMethods THEN ErrS("AttributeError")
       ELSE CASE type = "group_or_term" -> Hasher_create_group_or_term(options)
              [] type = "and" -> Hasher_create_group(S_and, options)
              [] type = "or" -> Hasher_create_group(S_or, options)
              [] type = "not" -> Hasher_create_group(S_not, options)
              [] type = "string_equals" -> Hasher_create_string_equals(options)
              [] type = "string_contains" -> Hasher_create_string_contains(options)
              [] type = "number_equals" -> Hasher_create_number_equals(options)
              [] type = "number_range" -> Hasher_create_number_range(options)
              [] type = "exists" -> Hasher_create_exists(options)
              [] type = "geo_point" -> Hasher_create_geo_point(options)
              [] type = "geo_named_area" -> Hasher_create_geo_named_area(options)
              [] type = "geo_custom_area" -> Hasher_create_geo_custom_area(options)

\* update(s) is given a unicode object s, which hashlib converts to bytes
\* with the default codec, ascii: a character above 127 raises
\* UnicodeEncodeError
AsciiEncodable(s) == \A i \in 1..Len(s) : Ord(s[i]) < 128

\* hash_query: the hex digest, or the exception raised.  The digest is the
\* SHA-1 of the concatenation of the strings passed to update(), which is
\* kept as the field "of": equal inputs give equal digests.  The search
\* string is passed to update() before the filters are looked at.
hash_query(query) ==
  LET part1 == IF "search" \in DOMAIN query
                 THEN S_search \o Format(query["search"]) ELSE <<>>
      filters == IF "filters" \in DOMAIN query
                   THEN Hasher_create_group_or_term(query["filters"])
                   ELSE OkS(<<>>)
      part2 == IF "filters" \in DOMAIN query THEN S_filters \o filters.s ELSE <<>>
  IN IF ~AsciiEncodable(part1) THEN [err |-> "UnicodeEncodeError", of |-> <<>>]
     ELSE IF filters.err # "none" THEN [err |-> filters.err, of |-> <<>>]
     ELSE IF ~AsciiEncodable(part2) THEN [err |-> "UnicodeEncodeError", of |-> <<>>]
     ELSE [err |-> "none", of |-> part1 \o part2]

\* ------------------------------------------------------------------------
\* v1_0_0Schema: the translator
\* ------------------------------------------------------------------------
\* placeholder for the node of a call that raised
NoNode == [kind |-> "none"]

\* the field name as given, without the prefix
prefix_field_Bare(field) == field

\* 'data.{}'.format(field)
prefix_field(field) == S_data \o field

\* elasticsearch-dsl query objects
QTerm(field, value) == [kind |-> "term", field |-> field, value |-> value]
QMatch(field, value) ==
  [kind |-> "match", field |-> field, query |-> value, operator |-> "and"]
QRange(field, bounds) == [kind |-> "range", field |-> field, bounds |-> bounds]
QExists(field) == [kind |-> "exists", field |-> field]
QGeoDistance(distance, lat, lon) ==
  [kind |-> "geo_distance", distance |-> distance, field |-> S_meta_geo,
   lat |-> lat, lon |-> lon]
QGeoPolygon(points) == [kind |-> "geo_polygon", field |-> S_meta_geo, points |-> points]
\* Bool(filter=..., must_not=..., should=..., minimum_should_match=...)
Bool(filter, must_not, should, msm) ==
  [kind |-> "bool", filter |-> filter, must_not |-> must_not, should |-> should,
   minimum_should_match |-> msm]

\* the should node built for a single term too
build_or_NoCollapse(terms) == [kind |-> "bool", filter |-> <<>>, must_not |-> <<>>,
                              should |-> terms, minimum_should_match |-> [num |-> 1]]

\* terms[0] if len(terms) == 1 else Bool(should=terms, minimum_should_match=1)
build_or(terms) ==
  IF Len(terms) = 1 THEN terms[1] ELSE Bool(<<>>, <<>>, terms, NumV(1))

\* the first member returned for any group that has one
build_and_First(members) ==
  IF Len(members) >= 1 THEN members[1] ELSE Bool(members, <<>>, <<>>, NoneV)

\* the filter node built for a single member too
build_and_NoCollapse(members) == Bool(members, <<>>, <<>>, NoneV)

\* members[0] if len(members) == 1 else Bool(filter=members)
build_and(members) ==
  IF Len(members) = 1 THEN members[1] ELSE Bool(members, <<>>, <<>>, NoneV)

\* a single member returned as it is, as create_and does
build_not_Collapse(members) ==
  IF Len(members) = 1 THEN members[1] ELSE Bool(<<>>, members, <<>>, NoneV)

\* Bool(must_not=members)
build_not(members) == Bool(<<>>, members, <<>>, NoneV)

\* the geo_polygon with the two coordinates of each point taken in GeoJSON
\* order
build_geo_polygon_query_Swapped(points) ==
  QGeoPolygon([i \in 1..Len(points) |-> [lat |-> points[i][1], lon |-> points[i][2]]])

\* each [lon, lat] point becomes {lat, lon}
build_geo_polygon_query(points) ==
  QGeoPolygon([i \in 1..Len(points) |-> [lat |-> points[i][2], lon |-> points[i][1]]])

\* the query of one polygon of a multipolygon
PolygonQuery(polygon) ==
  LET outer == polygon[1]
      holes == Tail(polygon)
      outer_query == build_geo_polygon_query(outer)
  IN IF holes # <<>>
       THEN Bool(<<outer_query>>,
                 [i \in 1..Len(holes) |-> build_geo_polygon_query(holes[i])],
                 <<>>, NoneV)
       ELSE outer_query

\* the result of a translator method: the node it returns or the exception
\* it raises, and self.geojson as the call leaves it
OkT(node, gj) == [err |-> "none", node |-> node, gj |-> gj]
ErrT(e, gj) == [err |-> e, node |-> NoNode, gj |-> gj]

build_multipolygon_query(coordinates, gj) ==
  IF \E i \in 1..Len(coordinates) : coordinates[i] = <<>> THEN ErrT("IndexError", gj)
  ELSE OkT(build_or([i \in 1..Len(coordinates) |-> PolygonQuery(coordinates[i])]), gj)

\* d[name] for the defaultdict(list) d that load_geojson returns: a missing
\* name is added with an empty list
DefaultDictGet(d, name) ==
  [n \in DOMAIN d \cup {name} |-> IF n \in DOMAIN d THEN d[n] ELSE <<>>]

\* self.geojson[category][name] and its effect on self.geojson
create_geo_named_area(options, gj) ==
  IF options = <<>> THEN ErrT("StopIteration", gj)
  ELSE LET category == Head(options)[1]
           name == Head(options)[2]
       IN IF category \notin DOMAIN gj THEN ErrT("KeyError", gj)
          ELSE LET gj2 == [gj EXCEPT ![category] = DefaultDictGet(@, name)]
               IN build_multipolygon_query(gj2[category][name], gj2)

create_geo_custom_area(coordinates, gj) == build_multipolygon_query(coordinates, gj)

create_string_equals(options) ==
  IF "fields" \notin DOMAIN options THEN [err |-> "KeyError", node |-> NoNode]
  ELSE IF options["fields"] # <<>> /\ "value" \notin DOMAIN options
    THEN [err |-> "KeyError", node |-> NoNode]
  ELSE [err |-> "none",
        node |-> build_or([i \in 1..Len(options["fields"]) |->
                   QTerm(prefix_field(options["fields"][i]), options["value"])])]

create_string_contains(options) ==
  IF "fields" \notin DOMAIN options \/ "value" \notin DOMAIN options
    THEN [err |-> "KeyError", node |-> NoNode]
  ELSE LET fields == options["fields"]
       IN IF fields # <<>>
            THEN [err |-> "none",
                  node |-> build_or([i \in 1..Len(fields) |->
                             QMatch(prefix_field(fields[i]) \o S_full, options["value"])])]
            ELSE [err |-> "none", node |-> QMatch(S_meta_all, options["value"])]

create_number_equals(options) ==
  IF "fields" \notin DOMAIN options THEN [err |-> "KeyError", node |-> NoNode]
  ELSE IF options["fields"] # <<>> /\ "value" \notin DOMAIN options
    THEN [err |-> "KeyError", node |-> NoNode]
  ELSE [err |-> "none",
        node |-> build_or([i \in 1..Len(options["fields"]) |->
                   QTerm(prefix_field(options["fields"][i]) \o S_number,
                         options["value"])])]

\* the bounds when a bound is tested for truth: a bound of 0 is dropped
RangeBounds_Truthy(options) ==
  LET less_than == Get(options, "less_than", NoneV)
      greater_than == Get(options, "greater_than", NoneV)
      less_than_inclusive == Get(options, "less_than_inclusive", TRUE)
      greater_than_inclusive == Get(options, "greater_than_inclusive", TRUE)
      upper == IF less_than \in {NoneV, NumV(0)} THEN {}
               ELSE IF ~less_than_inclusive THEN {"lt"} ELSE {"lte"}
      lower == IF greater_than \in {NoneV, NumV(0)} THEN {}
               ELSE IF ~greater_than_inclusive THEN {"gt"} ELSE {"gte"}
  IN [b \in upper \cup lower |-> IF b \in upper THEN less_than ELSE greater_than]

\* the dict `query` of create_number_range
RangeBounds(options) ==
  LET less_than == Get(options, "less_than", NoneV)
      greater_than == Get(options, "greater_than", NoneV)
      less_than_inclusive == Get(options, "less_than_inclusive", TRUE)
      greater_than_inclusive == Get(options, "greater_than_inclusive", TRUE)
      upper == IF less_than = NoneV THEN {}
               ELSE IF ~less_than_inclusive THEN {"lt"} ELSE {"lte"}
      lower == IF greater_than = NoneV THEN {}
               ELSE IF ~greater_than_inclusive THEN {"gt"} ELSE {"gte"}
  IN [b \in upper \cup lower |-> IF b \in upper THEN less_than ELSE greater_than]

create_number_range(options) ==
  IF "fields" \notin DOMAIN options THEN [err |-> "KeyError", node |-> NoNode]
  ELSE [err |-> "none",
        node |-> build_or([i \in 1..Len(options["fields"]) |->
                   QRange(prefix_field(options["fields"][i]) \o S_number,
                          RangeBounds(options))])]

create_exists(options) ==
  IF Get(options, "geo_field", FALSE)
    THEN [err |-> "none", node |-> QExists(S_meta_geo)]
  ELSE IF "fields" \notin DOMAIN options THEN [err |-> "KeyError", node |-> NoNode]
  ELSE [err |-> "none",
        node |-> build_or([i \in 1..Len(options["fields"]) |->
                   QExists(prefix_field(options["fields"][i]))])]

create_geo_point(options) ==
  IF "latitude" \notin DOMAIN options \/ "longitude" \notin DOMAIN options
    THEN [err |-> "KeyError", node |-> NoNode]
  ELSE [err |-> "none",
        node |-> QGeoDistance(Format(Get(options, "radius", NumV(0)))
                                \o Format(Get(options, "radius_unit", StrV(S_m))),
                              options["latitude"], options["longitude"])]

\* the names n for which v1_0_0Schema has an attribute create_<n>
SchemaMethods ==
  {"group_or_term", "and", "or", "not", "string_equals", "string_contains",
   "number_equals", "number_range", "exists", "geo_point", "geo_named_area",
   "geo_custom_area"}

\* the result of a leaf method that does not touch self.geojson
Pure(r, gj) == [err |-> r.err, node |-> r.node, gj |-> gj]

RECURSIVE create_group_or_term(_, _)
RECURSIVE TranslateMembers(_, _)

\* [self.create_group_or_term(member) for member in group], in order: the
\* list of nodes, or the first exception; gj is self.geojson afterwards
TranslateMembers(group, gj) ==
  IF group = <<>> THEN [err |-> "none", l |-> <<>>, gj |-> gj]
  ELSE LET first == create_group_or_term(Head(group), gj)
       IN IF first.err # "none" THEN [err |-> first.err, l |-> <<>>, gj |-> first.gj]
          ELSE LET rest == TranslateMembers(Tail(group), first.gj)
               IN IF rest.err # "none" THEN rest
                  ELSE [err |-> "none", l |-> <<first.node>> \o rest.l, gj |-> rest.gj]

create_and(group, gj) ==
  LET members == TranslateMembers(group, gj)
  IN IF members.err # "none" THEN ErrT(members.err, members.gj)
     ELSE OkT(build_and(members.l), members.gj)

create_or(group, gj) ==
  LET members == TranslateMembers(group, gj)
  IN IF members.err # "none" THEN ErrT(members.err, members.gj)
     ELSE OkT(build_or(members.l), members.gj)

create_not(group, gj) ==
  LET members == TranslateMembers(group, gj)
  IN IF members.err # "none" THEN ErrT(members.err, members.gj)
     ELSE OkT(build_not(members.l), members.gj)

create_group_or_term(group_or_term, gj) ==
  IF group_or_term = <<>> THEN ErrT("StopIteration", gj)
  ELSE
    LET type == FirstItem(group_or_term)[1]
        options == FirstItem(group_or_term)[2]
    IN IF type \notin SchemaMethods THEN ErrT("AttributeError", gj)
       ELSE CASE type = "group_or_term" -> create_group_or_term(options, gj)
              [] type = "and" -> create_and(options, gj)
              [] type = "or" -> create_or(options, gj)
              [] type = "not" -> create_not(options, gj)
              [] type = "string_equals" -> Pure(create_string_equals(options), gj)
              [] type = "string_contains" -> Pure(create_string_contains(options), gj)
              [] type = "number_equals" -> Pure(create_number_equals(options), gj)
              [] type = "number_range" -> Pure(create_number_range(options), gj)
              [] type = "exists" -> Pure(create_exists(options), gj)
              [] type = "geo_point" -> Pure(create_geo_point(options), gj)
              [] type = "geo_named_area" -> create_geo_named_area(options, gj)
              [] type = "geo_custom_area" -> create_geo_custom_area(options, gj)

\* add_search: search.query('match', **{'meta.all': {query, operator}})
add_search(query, search) ==
  IF "search" \in DOMAIN query
    THEN Append(search, QMatch(S_meta_all, query["search"]))
    ELSE search

\* a search object the caller passes: the clauses it holds already
GivenSearch(clauses) == [clauses |-> clauses]

\* translate(query, search) with the search object of the caller dropped
translate_Fresh(query, search, gj) ==
  LET s1 == add_search(query, <<>>)
  IN IF "filters" \in DOMAIN query
       THEN LET f == create_group_or_term(query["filters"], gj)
            IN IF f.err # "none" THEN [err |-> f.err, search |-> <<>>, gj |-> f.gj]
               ELSE [err |-> "none", search |-> Append(s1, f.node), gj |-> f.gj]
       ELSE [err |-> "none", search |-> s1, gj |-> gj]

\* translate(query, search=None): the search object is the list of the
\* clauses given to search.query(), in call order; Search() is the empty
\* list
translate(query, search, gj) ==
  LET s0 == IF search = NoneV THEN <<>> ELSE search.clauses
      s1 == add_search(query, s0)
  IN IF "filters" \in DOMAIN query
       THEN LET f == create_group_or_term(query["filters"], gj)
            IN IF f.err # "none" THEN [err |-> f.err, search |-> <<>>, gj |-> f.gj]
               ELSE [err |-> "none", search |-> Append(s1, f.node), gj |-> f.gj]
       ELSE [err |-> "none", search |-> s1, gj |-> gj]

\* ------------------------------------------------------------------------
\* v1_0_0Schema.load_geojson
\* ------------------------------------------------------------------------
IsLower(c) == Ord(c) >= 97 /\ Ord(c) <= 122
IsUpper(c) == Ord(c) >= 65 /\ Ord(c) <= 90
Upper(c) == IF IsLower(c) THEN ASCII[Ord(c) - 31 - 32] ELSE c
Lower(c) == IF IsUpper(c) THEN ASCII[Ord(c) - 31 + 32] ELSE c

\* word.capitalize()
Capitalize(w) ==
  IF w = <<>> THEN <<>>
  ELSE <<Upper(Head(w))>> \o [i \in 1..(Len(w) - 1) |-> Lower(w[i + 1])]

\* s.split(): the words of s, cur being the word read so far
RECURSIVE SplitWords(_, _)
SplitWords(s, cur) ==
  IF s = <<>> THEN (IF cur = <<>> THEN <<>> ELSE <<cur>>)
  ELSE IF Head(s) = " "
    THEN (IF cur = <<>> THEN <<>> ELSE <<cur>>) \o SplitWords(Tail(s), <<>>)
    ELSE SplitWords(Tail(s), Append(cur, Head(s)))

\* string.capwords(s)
capwords(s) ==
  LET words == SplitWords(s, <<>>)
  IN Join(<<" ">>, [i \in 1..Len(words) |-> Capitalize(words[i])])

\* filter(None, (properties.get(key, None) for key in name_keys))
RECURSIVE NameCandidates(_, _)
\* the candidates with the last name key first
RECURSIVE NameCandidates_LastFirst(_, _)
NameCandidates_LastFirst(properties, name_keys) ==
  IF name_keys = <<>> THEN <<>>
  ELSE LET value == Get(properties, name_keys[Len(name_keys)], <<>>)
       IN (IF value = <<>> THEN <<>> ELSE <<value>>)
            \o NameCandidates_LastFirst(properties, SubSeq(name_keys, 1, Len(name_keys) - 1))

NameCandidates(properties, name_keys) ==
  IF name_keys = <<>> THEN <<>>
  ELSE LET value == Get(properties, Head(name_keys), <<>>)
       IN (IF value = <<>> THEN <<>> ELSE <<value>>)
            \o NameCandidates(properties, Tail(name_keys))

\* for polygon in coordinates: if polygon not in l: l.append(polygon)
RECURSIVE AppendNew(_, _)
\* every polygon appended, present or not
AppendNew_Always(l, coordinates) == l \o coordinates

AppendNew(l, coordinates) ==
  IF coordinates = <<>> THEN l
  ELSE AppendNew(IF \E i \in 1..Len(l) : l[i] = Head(coordinates)
                   THEN l ELSE Append(l, Head(coordinates)),
                 Tail(coordinates))

\* the loop body when a malformed feature is skipped
LoadFeature_Skip(feature, name_keys, lookup) ==
  LET names == NameCandidates(feature.properties, name_keys)
  IN IF names = <<>> \/ "geometry" \notin DOMAIN feature
          \/ "coordinates" \notin DOMAIN feature.geometry
       THEN [err |-> "none", lookup |-> lookup]
     ELSE
       LET name == capwords(Head(names))
           coordinates == IF feature.geometry.type = "Polygon"
                            THEN <<feature.geometry.coordinates>>
                            ELSE feature.geometry.coordinates
           l == DefaultDictGet(lookup, name)
       IN [err |-> "none", lookup |-> [l EXCEPT ![name] = AppendNew(@, coordinates)]]

\* the body of the loop of load_geojson for one feature, lookup being the
\* defaultdict(list) built so far: the lookup with the feature added, or the
\* exception raised
LoadFeature(feature, name_keys, lookup) ==
  LET names == NameCandidates(feature.properties, name_keys)
  IN IF names = <<>> THEN [err |-> "StopIteration", lookup |-> lookup]
     ELSE IF "geometry" \notin DOMAIN feature
               \/ "coordinates" \notin DOMAIN feature.geometry
       THEN [err |-> "KeyError", lookup |-> lookup]
     ELSE
       LET name == capwords(Head(names))
           coordinates == IF feature.geometry.type = "Polygon"
                            THEN <<feature.geometry.coordinates>>
                            ELSE feature.geometry.coordinates
           l == DefaultDictGet(lookup, name)
       IN [err |-> "none", lookup |-> [l EXCEPT ![name] = AppendNew(@, coordinates)]]

\* the loop of load_geojson over the features left
RECURSIVE LoadFeatures(_, _, _)
LoadFeatures(features, name_keys, lookup) ==
  IF features = <<>> THEN [err |-> "none", lookup |-> lookup]
  ELSE LET first == LoadFeature(Head(features), name_keys, lookup)
       IN IF first.err # "none" THEN first
          ELSE LoadFeatures(Tail(features), name_keys, first.lookup)

load_geojson(features, name_keys) == LoadFeatures(features, name_keys, <<>>)

\* ------------------------------------------------------------------------
\* The geojson files: a few features per category
\* ------------------------------------------------------------------------
S_country == <<"c", "o", "u", "n", "t", "r", "y">>
S_marine == <<"m", "a", "r", "i", "n", "e">>
S_geography == <<"g", "e", "o", "g", "r", "a", "p", "h", "y">>
S_France == <<"F", "r", "a", "n", "c", "e">>
S_Chad == <<"C", "h", "a", "d">>
S_North_Sea == <<"N", "o", "r", "t", "h", " ", "S", "e", "a">>
S_Alps == <<"A", "l", "p", "s">>
S_Nowhereland == <<"N", "o", "w", "h", "e", "r", "e", "l", "a", "n", "d">>
S_planet == <<"p", "l", "a", "n", "e", "t">>
S_Mars == <<"M", "a", "r", "s">>

\* rings: lists of [lon, lat] points
RingA == << <<0, 0>>, <<4, 0>>, <<0, 4>> >>
RingB == << <<5, 5>>, <<9, 5>>, <<5, 9>> >>
HoleA == << <<1, 1>>, <<2, 1>>, <<1, 2>> >>
HoleB == << <<3, 0>>, <<2, 2>>, <<1, 0>> >>
\* a closed ring: the last point repeats the first
RingC == << <<0, 0>>, <<6, 0>>, <<0, 6>>, <<0, 0>> >>

CountryFeatures ==
  << [properties |-> [NAME_EN |-> <<"f", "r", "a", "n", "c", "e">>,
                      NAME |-> <<"F", "R">>],
      geometry |-> [type |-> "Polygon", coordinates |-> <<RingA>>]],
     [properties |-> [NAME_EN |-> <<>>, NAME |-> <<"F", "R", "A", "N", "C", "E">>],
      geometry |-> [type |-> "MultiPolygon",
                    coordinates |-> << <<RingA>>, <<RingB, HoleA>> >>]],
     [properties |-> [NAME |-> <<"c", "h", "a", "d">>],
      geometry |-> [type |-> "Polygon", coordinates |-> <<RingB>>]] >>

MarineFeatures ==
  << [properties |-> [name |-> <<"n", "o", "r", "t", "h", " ", " ", "s", "e", "a">>],
      geometry |-> [type |-> "Polygon", coordinates |-> <<RingA, HoleA, HoleB>>]] >>

GeographyFeatures ==
  << [properties |-> [name_en |-> <<"A", "L", "P", "S">>, name |-> <<"a", "l", "p", "e", "n">>],
      geometry |-> [type |-> "MultiPolygon", coordinates |-> << <<RingB>> >>]] >>

\* the categories in the order __init__ loads them, and their name keys
Categories == <<S_country, S_marine, S_geography>>
NameKeys == << <<"NAME_EN", "NAME">>, <<"name">>, <<"name_en", "name">> >>

\* __init__ after it has loaded the three files
Loaded ==
  [files |-> <<CountryFeatures, MarineFeatures, GeographyFeatures>>,
   category |-> 4, n |-> 0, lookup |-> <<>>,
   done |-> [c \in 1..3 |->
               load_geojson(<<CountryFeatures, MarineFeatures, GeographyFeatures>>[c],
                            NameKeys[c]).lookup],
   err |-> "none", built |-> TRUE]

\* self.geojson as __init__ builds it
InitialGeojson ==
  [category \in {S_country, S_marine, S_geography} |->
     IF category = S_country
       THEN load_geojson(CountryFeatures, <<"NAME_EN", "NAME">>).lookup
     ELSE IF category = S_marine
       THEN load_geojson(MarineFeatures, <<"name">>).lookup
     ELSE load_geojson(GeographyFeatures, <<"name_en", "name">>).lookup]

\* ------------------------------------------------------------------------
\* Query documents given to translate and hash
\* ------------------------------------------------------------------------
\* a dict with the single key k
GOT(k, v) == << <<k, v>> >>

\* all lists over S of length at most n
SeqsUpTo(S, n) == UNION {[1..m -> S] : m \in 0..n}

GroupOps == {"and", "or", "not"}

FieldNames == {<<"a">>, <<"b">>, <<"a", "b">>}
FieldLists == SeqsUpTo(FieldNames, MaxFields)

ValueX == StrV(<<"x">>)
\* a string value with a character outside ASCII
ValueAccent == StrV(<<"c", "a", "f", E_ACUTE>>)

\* the leaves used as members of groups
LeafFields == GOT("string_equals", [fields |-> << <<"b">>, <<"a">> >>, value |-> ValueX])
LeafGeoExists == GOT("exists", [geo_field |-> TRUE])
LeafNumber == GOT("number_equals", [fields |-> << <<"a">> >>, value |-> NumV(5)])
LeafNowhere == GOT("geo_named_area", << <<S_country, S_Nowhereland>> >>)
LeafFrance == GOT("geo_named_area", << <<S_country, S_France>> >>)
LeafMars == GOT("geo_named_area", << <<S_planet, S_Mars>> >>)
\* an operator name the schema does not have
LeafRegex == GOT("regex", [fields |-> << <<"a">> >>, value |-> ValueX])
\* the name of a method that is not an operator
LeafWrapped == GOT("group_or_term", LeafGeoExists)
\* dicts with no key and with two keys
NoKeys == <<>>
TwoKeys == LeafGeoExists \o LeafNumber
TwoKeysRegexFirst == LeafRegex \o LeafNumber

\* groups of leaves, of up to MaxMembers members
FlatLeaves == {LeafFields, LeafNowhere, LeafRegex, LeafWrapped, LeafGeoExists}
FlatTerms == {GOT(op, g) : op \in GroupOps, g \in SeqsUpTo(FlatLeaves, MaxMembers)}

\* the groups used as members of groups: each operator over the first n
\* leaves of InnerLeaves, n <= MaxInner
InnerLeaves == <<LeafNumber, LeafGeoExists, LeafFrance, LeafFields>>
InnerGroups ==
  {GOT(op, SubSeq(InnerLeaves, 1, n)) : op \in GroupOps, n \in 0..MaxInner}
NestLeaves == {LeafFields, LeafNowhere, LeafRegex}
Members == NestLeaves \cup InnerGroups
\* groups of one or two members, each a leaf or a group
NestedTerms ==
  {GOT(op, g) : op \in GroupOps,
                g \in {<<m>> : m \in Members} \cup (Members \X Members)}
GroupTerms == FlatTerms \cup NestedTerms

\* groups with a malformed or unknown member two levels down
DeepTerms ==
  {GOT(op1, <<GOT(op2, <<LeafNumber, bad>>)>>) :
     op1 \in GroupOps, op2 \in GroupOps,
     bad \in {LeafRegex, NoKeys, TwoKeys, LeafMars, LeafWrapped}}

StringEqualsTerms ==
  {GOT("string_equals", [fields |-> f, value |-> ValueX]) : f \in FieldLists}
    \cup {GOT("string_equals", [fields |-> << <<"a">> >>]),
          GOT("string_equals", [value |-> ValueX])}
StringContainsTerms ==
  {GOT("string_contains", [fields |-> f, value |-> ValueX]) : f \in FieldLists}
    \cup {GOT("string_contains", [fields |-> <<>>])}
NumberEqualsTerms ==
  {GOT("number_equals", [fields |-> f, value |-> NumV(n)]) :
     f \in FieldLists, n \in {0, 12}}
ExistsTerms ==
  {GOT("exists", [fields |-> f]) : f \in FieldLists}
    \cup {GOT("exists", [fields |-> f, geo_field |-> g]) :
            f \in FieldLists, g \in BOOLEAN}
    \cup {LeafGeoExists, GOT("exists", [geo_field |-> FALSE])}

\* the optional keys of number_range, each absent or present
RangeOptions ==
  {o \in [{"less_than", "greater_than"} -> {NoneV, NumV(0), NumV(10)}] : TRUE}
RangeFlags ==
  [{"less_than_inclusive", "greater_than_inclusive"} -> {"absent", "true", "false"}]
RangeDict(f, o, fl) ==
  LET keys == {"fields"}
                \cup {k \in {"less_than", "greater_than"} : o[k] # NoneV}
                \cup {k \in {"less_than_inclusive", "greater_than_inclusive"} :
                        fl[k] # "absent"}
  IN [k \in keys |->
        IF k = "fields" THEN f
        ELSE IF k \in {"less_than", "greater_than"} THEN o[k]
        ELSE fl[k] = "true"]
NumberRangeTerms ==
  {GOT("number_range", RangeDict(f, o, fl)) :
     f \in {<< <<"a">> >>, << <<"b">>, <<"a">> >>}, o \in RangeOptions, fl \in RangeFlags}

GeoPointTerms ==
  {GOT("geo_point", [latitude |-> NumV(51), longitude |-> NumV(-1)]),
   GOT("geo_point", [latitude |-> NumV(51), longitude |-> NumV(-1), radius |-> NumV(0)]),
   GOT("geo_point", [latitude |-> NumV(51), longitude |-> NumV(-1), radius |-> NumV(0),
                     radius_unit |-> StrV(S_m)]),
   GOT("geo_point", [latitude |-> NumV(51), longitude |-> NumV(-1), radius |-> NumV(5),
                     radius_unit |-> StrV(<<"k", "m">>)]),
   GOT("geo_point", [latitude |-> NumV(51), longitude |-> NumV(-1), radius |-> NumV(5)]),
   GOT("geo_point", [latitude |-> NumV(51), longitude |-> NumV(-1),
                     radius_unit |-> StrV(<<"k", "m">>)]),
   GOT("geo_point", [latitude |-> NumV(51)])}

GeoNamedAreaTerms ==
  {LeafFrance, LeafNowhere, LeafMars,
   GOT("geo_named_area", << <<S_country, S_Chad>> >>),
   GOT("geo_named_area", << <<S_marine, S_North_Sea>> >>),
   GOT("geo_named_area", << <<S_marine, S_Nowhereland>> >>),
   GOT("geo_named_area", << <<S_geography, S_Alps>> >>),
   GOT("geo_named_area", <<>>)}

GeoCustomAreaTerms ==
  {GOT("geo_custom_area", c) :
     c \in {<< <<RingA>> >>, << <<RingA>>, <<RingB>> >>, << <<RingA, HoleA, HoleB>> >>,
            << <<RingA, HoleB, HoleA>>, <<RingB>> >>, << <<RingC, HoleA>> >>,
            <<>>, << <<>> >>}}

MalformedTerms == {NoKeys, TwoKeys, TwoKeysRegexFirst, LeafRegex, LeafWrapped,
                   GOT("group_or_term", LeafRegex),
                   GOT("group_or_term", GOT("or", <<LeafNumber, LeafFields>>))}

LeafTerms ==
  StringEqualsTerms \cup StringContainsTerms \cup NumberEqualsTerms \cup ExistsTerms
    \cup NumberRangeTerms \cup GeoPointTerms \cup GeoNamedAreaTerms
    \cup GeoCustomAreaTerms

Terms == GroupTerms \cup DeepTerms \cup LeafTerms \cup MalformedTerms

\* documents with a search key
SearchDocs ==
  {[search |-> ValueX]}
    \cup {[search |-> ValueX, filters |-> t] :
            t \in {LeafFields, LeafNowhere, LeafRegex, GOT("and", <<LeafNumber, LeafFields>>)}}
    \cup {[search |-> ValueAccent], [search |-> ValueAccent, filters |-> LeafRegex],
          [search |-> ValueAccent, filters |-> LeafFields],
          [filters |-> GOT("string_equals", [fields |-> << <<"a">> >>, value |-> ValueAccent])]}

\* the document with no key
EmptyDoc == <<>>

\* documents whose strings hold the separators of the canonical string: a
\* field name with a comma, and a search text that ends like the start of
\* a filters part, next to the document it resembles
SeparatorDocs ==
  {[filters |-> GOT("string_equals", [fields |-> << <<"a", ",", "b">> >>, value |-> ValueX])],
   [search |-> StrV(<<"x">> \o S_filters \o S_geo_exists)],
   [search |-> ValueX, filters |-> LeafGeoExists]}

Docs == {[filters |-> t] : t \in Terms} \cup SearchDocs \cup SeparatorDocs \cup {EmptyDoc}

\* documents a caller may pass after the first one
FollowUps == {[filters |-> LeafNowhere], [filters |-> LeafFrance],
              [filters |-> GOT("geo_named_area", << <<S_marine, S_Nowhereland>> >>)]}

\* ------------------------------------------------------------------------
\* One v1_0_0Schema object and the calls made on it
\* ------------------------------------------------------------------------
VARIABLES
  query,     \* the document of the last call (at first: of the call to come)
  search,    \* what the last translate call on query returned or raised
  digest,    \* what the last hash call on query returned or raised
  calls,     \* thread -> the call it is running on the schema, if any
  loader,    \* the progress of __init__ through the geojson files
  field_cache,    \* lib/basic_query/utils.py: (resource_id, rounded_version) -> (mapping, fields)
  fields_call,    \* the last get_fields call: its key, what it did and returned
  feeder,         \* a DatastoreFeeder: all_columns, columns and what it was fed
  queues,         \* the job queues that exist: name -> the jobs put on it
  upsert,         \* the last datastore_upsert call: the calls it made, its outcome
  versions_call   \* the datastore_get_resource_versions call in progress

\* the state of the schema object and of the datastore actions
schema == <<geojson, query, search, digest, calls, loader>>
datastore == <<field_cache, fields_call, feeder, queues, upsert, versions_call>>
vars == <<geojson, query, search, digest, calls, loader,
          field_cache, fields_call, feeder, queues, upsert, versions_call>>

\* no get_fields call yet, a feeder just constructed, no queue, no action
\* called
NoFieldsCall == [key |-> <<>>, hit |-> FALSE, queried |-> FALSE, result |-> <<>>]
NewFeeder == [all_columns |-> {}, columns |-> <<>>, fed |-> <<>>, record |-> <<>>]
NoUpsert == [trace |-> <<>>, outcome |-> "unset", answers |-> <<>>]
NoVersionsCall == [pc |-> "idle", after |-> NoneV, versions |-> <<>>,
                   requests |-> <<>>, responses |-> <<>>, result |-> <<>>]
DatastoreInit ==
  /\ field_cache = [k \in {} |-> <<>>]
  /\ fields_call = NoFieldsCall
  /\ feeder = NewFeeder
  /\ queues = [q \in {} |-> <<>>]
  /\ upsert = NoUpsert
  /\ versions_call = NoVersionsCall

NoSearch == [err |-> "unset", search |-> <<>>, given |-> NoneV]
\* the search argument of translate: none, or a search object that holds a
\* clause already
GivenSearches ==
  {NoneV, GivenSearch(<<QTerm(S_data \o <<"v">>, StrV(<<"y">>))>>)}
NoDigest == [err |-> "unset", of |-> <<>>]
\* no thread is in a call
Idle == [state |-> "idle"]
Threads == 1..MaxThreads
NoCalls == [t \in Threads |-> Idle]

Init ==
  /\ geojson = InitialGeojson
  /\ query \in Docs
  /\ search = NoSearch
  /\ digest = NoDigest
  /\ calls = NoCalls
  /\ loader = Loaded
  /\ DatastoreInit

\* schema.translate(d) and schema.translate(d, s)
Translate(d, s) ==
  LET r == translate(d, s, geojson)
  IN /\ query' = d
     /\ search' = [err |-> r.err, search |-> r.search, given |-> s]
     /\ geojson' = r.gj
     /\ digest' = IF d = query THEN digest ELSE NoDigest
     /\ UNCHANGED <<calls, loader>>
     /\ UNCHANGED datastore

\* schema.hash(d)
Hash(d) ==
  /\ query' = d
  /\ digest' = hash_query(d)
  /\ search' = IF d = query THEN search ELSE NoSearch
  /\ UNCHANGED <<geojson, calls, loader>>
  /\ UNCHANGED datastore

Next ==
  \/ \E d \in {query} \cup FollowUps, s \in GivenSearches : Translate(d, s)
  \/ \E d \in {query} \cup FollowUps : Hash(d)

Spec == Init /\ [][Next]_vars

\* ------------------------------------------------------------------------
\* Threads that call one v1_0_0Schema object at the same time
\* ------------------------------------------------------------------------
\* A translate call reads and writes self.geojson only in
\* create_geo_named_area, once per named area of the document: a call on a
\* group is a sequence of steps, one per member, and threads interleave
\* between the steps.  A hash call touches no shared state: one step.
LeafMarineNowhere == GOT("geo_named_area", << <<S_marine, S_Nowhereland>> >>)

\* the documents the threads pass
ThreadDocs ==
  {[filters |-> GOT("and", <<LeafNowhere, LeafFrance>>)],
   [filters |-> GOT("or", <<LeafFields, LeafNowhere>>)],
   [filters |-> GOT("not", <<LeafMarineNowhere>>)],
   [filters |-> GOT("and", <<LeafNowhere, LeafRegex>>)],
   [filters |-> LeafFrance],
   [search |-> ValueX, filters |-> LeafNowhere]}

\* the GroupOrTerms a translate call on doc hands to create_group_or_term
\* one after the other: the members of a top group, or the one term
CallMembers(doc) ==
  LET item == FirstItem(doc["filters"])
  IN IF item[1] \in GroupOps THEN item[2] ELSE <<doc["filters"]>>

\* the node translate builds from the nodes of the members
CallNode(doc, nodes) ==
  LET type == FirstItem(doc["filters"])[1]
  IN CASE type = "and" -> build_and(nodes)
       [] type = "or" -> build_or(nodes)
       [] type = "not" -> build_not(nodes)
       [] OTHER -> nodes[1]

ThreadInit ==
  /\ geojson = InitialGeojson
  /\ loader = Loaded
  /\ calls = NoCalls
  /\ query = EmptyDoc
  /\ search = NoSearch
  /\ digest = NoDigest
  /\ DatastoreInit

\* thread t enters schema.translate(d) or schema.hash(d)
Call(t, kind, d) ==
  /\ calls[t].state = "idle"
  /\ calls' = [calls EXCEPT ![t] =
                 [state |-> "running", kind |-> kind, doc |-> d, nodes |-> <<>>,
                  err |-> "none", result |-> <<>>]]
  /\ UNCHANGED <<geojson, query, search, digest, loader>>
  /\ UNCHANGED datastore

\* thread t translates the next member of its document
TranslateStep(t) ==
  /\ calls[t].state = "running"
  /\ calls[t].kind = "translate"
  /\ Len(calls[t].nodes) < Len(CallMembers(calls[t].doc))
  /\ LET r == create_group_or_term(
                CallMembers(calls[t].doc)[Len(calls[t].nodes) + 1], geojson)
     IN /\ geojson' = r.gj
        /\ calls' = [calls EXCEPT ![t] =
                       IF r.err # "none"
                         THEN [@ EXCEPT !.state = "done", !.err = r.err]
                         ELSE [@ EXCEPT !.nodes = Append(@, r.node)]]
  /\ UNCHANGED <<query, search, digest, loader>>
  /\ UNCHANGED datastore

\* thread t returns from translate
TranslateReturn(t) ==
  /\ calls[t].state = "running"
  /\ calls[t].kind = "translate"
  /\ Len(calls[t].nodes) = Len(CallMembers(calls[t].doc))
  /\ calls' = [calls EXCEPT ![t] =
                 [@ EXCEPT !.state = "done",
                           !.result = Append(add_search(calls[t].doc, <<>>),
                                             CallNode(calls[t].doc, calls[t].nodes))]]
  /\ UNCHANGED <<geojson, query, search, digest, loader>>
  /\ UNCHANGED datastore

\* thread t runs hash_query
HashCall(t) ==
  /\ calls[t].state = "running"
  /\ calls[t].kind = "hash"
  /\ LET h == hash_query(calls[t].doc)
     IN calls' = [calls EXCEPT ![t] =
                    [@ EXCEPT !.state = "done", !.err = h.err, !.result = h.of]]
  /\ UNCHANGED <<geojson, query, search, digest, loader>>
  /\ UNCHANGED datastore

\* the caller of thread t takes the result
TakeResult(t) ==
  /\ calls[t].state = "done"
  /\ calls' = [calls EXCEPT ![t] = Idle]
  /\ UNCHANGED <<geojson, query, search, digest, loader>>
  /\ UNCHANGED datastore

ThreadNext ==
  \/ \E t \in Threads, d \in ThreadDocs : Call(t, "translate", d)
  \/ \E t \in Threads, d \in ThreadDocs : Call(t, "hash", d)
  \/ \E t \in Threads : TranslateStep(t)
  \/ \E t \in Threads : TranslateReturn(t)
  \/ \E t \in Threads : HashCall(t)
  \/ \E t \in Threads : TakeResult(t)

ThreadSpec == ThreadInit /\ [][ThreadNext]_vars

\* ------------------------------------------------------------------------
\* The construction of a v1_0_0Schema object from the geojson files
\* ------------------------------------------------------------------------
\* features a country file may hold.  NAME_EN comes before NAME in the name
\* keys; an empty value stands for "" and for null alike
S_france == <<"f", "r", "a", "n", "c", "e">>
S_chad == <<"c", "h", "a", "d">>
PolygonA == [type |-> "Polygon", coordinates |-> <<RingA>>]
MultiAB == [type |-> "MultiPolygon", coordinates |-> << <<RingA>>, <<RingB, HoleA>> >>]
PolygonBHole == [type |-> "Polygon", coordinates |-> <<RingB, HoleA>>]
FeaturePool ==
  << [properties |-> [NAME_EN |-> S_france, NAME |-> <<"F", "R">>], geometry |-> PolygonA],
     [properties |-> [NAME_EN |-> S_france, NAME |-> <<"F", "R">>], geometry |-> MultiAB],
     [properties |-> [NAME_EN |-> <<>>, NAME |-> <<"F", "R", "A", "N", "C", "E">>],
      geometry |-> PolygonA],
     [properties |-> [NAME_EN |-> <<>>, NAME |-> <<"F", "R", "A", "N", "C", "E">>],
      geometry |-> MultiAB],
     [properties |-> [NAME |-> S_chad], geometry |-> PolygonA],
     [properties |-> [NAME |-> S_chad], geometry |-> MultiAB],
     [properties |-> [NAME_EN |-> S_chad, NAME |-> <<>>], geometry |-> PolygonBHole],
     \* malformed: no name value, no geometry, no coordinates
     [properties |-> [NAME_EN |-> <<>>], geometry |-> PolygonA],
     [properties |-> [NAME_EN |-> S_france]],
     [properties |-> [NAME |-> S_chad], geometry |-> [type |-> "Polygon"]] >>

\* the marine and the geography file: as shipped, or with a malformed
\* feature after a good one
MarineFiles ==
  <<MarineFeatures,
    MarineFeatures \o <<[properties |-> [NAME |-> S_chad], geometry |-> PolygonA]>> >>
GeographyFiles ==
  <<GeographyFeatures,
    GeographyFeatures \o <<[properties |-> [name |-> S_chad]]>> >>

\* the documents translated once the object exists
LoadedDocs == {[filters |-> LeafFrance], [filters |-> LeafNowhere]}

\* no object yet: __init__ starts on the first file with an empty lookup
LoadInit ==
  /\ \E ix \in SeqsUpTo(1..Len(FeaturePool), MaxFeatures), m \in 1..2, g \in 1..2 :
       loader = [files |-> <<[i \in 1..Len(ix) |-> FeaturePool[ix[i]]],
                             MarineFiles[m], GeographyFiles[g]>>,
                 category |-> 1, n |-> 0, lookup |-> <<>>, done |-> <<>>,
                 err |-> "none", built |-> FALSE]
  /\ geojson = <<>>
  /\ query = EmptyDoc
  /\ search = NoSearch
  /\ digest = NoDigest
  /\ calls = NoCalls
  /\ DatastoreInit

\* one pass of the loop of load_geojson: the next feature of the file
LoadFeatureStep ==
  /\ loader.err = "none"
  /\ loader.category <= 3
  /\ loader.n < Len(loader.files[loader.category])
  /\ LET r == LoadFeature(loader.files[loader.category][loader.n + 1],
                          NameKeys[loader.category], loader.lookup)
     IN loader' = [loader EXCEPT !.err = r.err, !.lookup = r.lookup, !.n = @ + 1]
  /\ UNCHANGED <<geojson, query, search, digest, calls>>
  /\ UNCHANGED datastore

\* load_geojson returns the lookup; __init__ goes on to the next file
LoadReturn ==
  /\ loader.err = "none"
  /\ loader.category <= 3
  /\ loader.n = Len(loader.files[loader.category])
  /\ loader' = [loader EXCEPT !.done = Append(@, loader.lookup), !.lookup = <<>>,
                              !.n = 0, !.category = @ + 1]
  /\ UNCHANGED <<geojson, query, search, digest, calls>>
  /\ UNCHANGED datastore

\* __init__ assigns self.geojson and returns the object
Construct ==
  /\ loader.err = "none"
  /\ loader.category = 4
  /\ ~loader.built
  /\ loader' = [loader EXCEPT !.built = TRUE]
  /\ geojson' = [category \in {S_country, S_marine, S_geography} |->
                   loader.done[CHOOSE c \in 1..3 : Categories[c] = category]]
  /\ UNCHANGED <<query, search, digest, calls>>
  /\ UNCHANGED datastore

\* schema.translate(d) on the object __init__ returned
LoadedTranslate(d) ==
  /\ loader.built
  /\ Translate(d, NoneV)

LoadNext ==
  \/ LoadFeatureStep
  \/ LoadReturn
  \/ Construct
  \/ \E d \in LoadedDocs : LoadedTranslate(d)

LoadSpec == LoadInit /\ [][LoadNext]_vars

\* ------------------------------------------------------------------------
\* Reorderings of a document
\* ------------------------------------------------------------------------
Reorder(l, f) == [i \in 1..Len(l) |-> l[f[i]]]

\* all orders of the list l
ListPerms(l) ==
  IF l = <<>> THEN {<<>>} ELSE {Reorder(l, f) : f \in Permutations(1..Len(l))}

\* all lists that take their i-th element from sets[i]
RECURSIVE SeqProduct(_)
SeqProduct(sets) ==
  IF sets = <<>> THEN {<<>>}
  ELSE {<<x>> \o rest : x \in Head(sets), rest \in SeqProduct(Tail(sets))}

\* the dicts obtained from a GroupOrTerm by permuting the members of any of
\* its groups, at any depth
RECURSIVE GroupPermsOf(_)
GroupPermsOf(group_or_term) ==
  LET ItemPerms(item) ==
        IF item[1] \in GroupOps
          THEN {<<item[1], m>> :
                  m \in UNION {ListPerms(l) :
                                 l \in SeqProduct([i \in 1..Len(item[2]) |->
                                                     GroupPermsOf(item[2][i])])}}
        ELSE IF item[1] = "group_or_term"
          THEN {<<item[1], g>> : g \in GroupPermsOf(item[2])}
        ELSE {item}
  IN SeqProduct([i \in 1..Len(group_or_term) |-> ItemPerms(group_or_term[i])])

DocGroupPerms(doc) ==
  IF "filters" \in DOMAIN doc
    THEN {[doc EXCEPT !["filters"] = g] : g \in GroupPermsOf(doc["filters"])}
    ELSE {doc}

FieldLeafOps ==
  {"string_equals", "string_contains", "number_equals", "number_range", "exists"}

\* the dicts obtained from a GroupOrTerm by permuting the fields list of any
\* of its leaves
RECURSIVE FieldPermsOf(_)
FieldPermsOf(group_or_term) ==
  LET ItemPerms(item) ==
        IF item[1] \in FieldLeafOps
          THEN IF "fields" \in DOMAIN item[2]
                 THEN {<<item[1], [item[2] EXCEPT !["fields"] = f]>> :
                         f \in ListPerms(item[2]["fields"])}
                 ELSE {item}
        ELSE IF item[1] \in GroupOps
          THEN {<<item[1], m>> :
                  m \in SeqProduct([i \in 1..Len(item[2]) |-> FieldPermsOf(item[2][i])])}
        ELSE IF item[1] = "group_or_term"
          THEN {<<item[1], g>> : g \in FieldPermsOf(item[2])}
        ELSE {item}
  IN SeqProduct([i \in 1..Len(group_or_term) |-> ItemPerms(group_or_term[i])])

DocFieldPerms(doc) ==
  IF "filters" \in DOMAIN doc
    THEN {[doc EXCEPT !["filters"] = g] : g \in FieldPermsOf(doc["filters"])}
    ELSE {doc}

\* two query trees with the same node kinds and, in every boolean node, the
\* same multisets of clauses
RECURSIVE NodeEquiv(_, _)
NodeEquiv(t1, t2) ==
  LET ListEquiv(l1, l2) ==
        /\ Len(l1) = Len(l2)
        /\ \/ Len(l1) = 0
           \/ \E f \in Permutations(1..Len(l1)) :
                \A i \in 1..Len(l1) : NodeEquiv(l1[i], l2[f[i]])
  IN IF t1.kind # t2.kind THEN FALSE
     ELSE IF t1.kind = "bool"
       THEN /\ t1.minimum_should_match = t2.minimum_should_match
            /\ ListEquiv(t1.filter, t2.filter)
            /\ ListEquiv(t1.must_not, t2.must_not)
            /\ ListEquiv(t1.should, t2.should)
     ELSE t1 = t2

\* the same search clauses, each up to NodeEquiv
SearchEquiv(s1, s2) ==
  /\ Len(s1) = Len(s2)
  /\ \A i \in 1..Len(s1) : NodeEquiv(s1[i], s2[i])

\* the dict has exactly one key, and so has every member below it
RECURSIVE WellKeyed(_)
WellKeyed(group_or_term) ==
  /\ Len(group_or_term) = 1
  /\ group_or_term[1][1] \in GroupOps =>
       \A i \in 1..Len(group_or_term[1][2]) : WellKeyed(group_or_term[1][2][i])
  /\ group_or_term[1][1] = "group_or_term" => WellKeyed(group_or_term[1][2])

IsGroup(group_or_term) == Len(group_or_term) = 1 /\ group_or_term[1][1] \in GroupOps

\* a group of at least two members, one of which is a group that has two
\* different members
HasNestedGroups(group_or_term) ==
  /\ IsGroup(group_or_term)
  /\ Len(group_or_term[1][2]) >= 2
  /\ \E i \in 1..Len(group_or_term[1][2]) :
       LET m == group_or_term[1][2][i]
       IN IsGroup(m) /\ Len(m[1][2]) >= 2 /\ m[1][2][1] # m[1][2][2]

\* the filter tree of the last translate call
FilterNode == search.search[Len(search.search)]

\* ------------------------------------------------------------------------
\* C1
\* ------------------------------------------------------------------------
\* C1: hash_query gives a document and every document obtained from it by
\* permuting the members of its and / or / not groups, at any depth, the
\* same digest (and raises for all of them if it raises for one).
C1_HashGroupOrder ==
  digest.err # "unset" =>
    \A p \in DocGroupPerms(query) :
      IF digest.err = "none" THEN hash_query(p) = digest
      ELSE hash_query(p).err # "none"

\* a hashed document with nested groups some permutation of which differs
C1_Witness ==
  /\ digest.err = "none"
  /\ "filters" \in DOMAIN query
  /\ HasNestedGroups(query["filters"])
  /\ \E p \in DocGroupPerms(query) : p # query

\* ------------------------------------------------------------------------
\* C2
\* ------------------------------------------------------------------------
\* the operators of the v1.0.0 schema
KnownOperators ==
  {"and", "or", "not", "string_equals", "string_contains", "number_equals",
   "number_range", "exists", "geo_point", "geo_named_area", "geo_custom_area"}

\* the (category, name) pair is not in the lookup that __init__ built
AbsentRegion(category, name) ==
  \/ category \notin DOMAIN InitialGeojson
  \/ name \notin DOMAIN InitialGeojson[category]

\* the document is one geo_named_area term that names a region
NamesRegion(doc) ==
  /\ "filters" \in DOMAIN doc
  /\ Len(doc["filters"]) = 1
  /\ doc["filters"][1][1] = "geo_named_area"
  /\ Len(doc["filters"][1][2]) = 1

\* C2: translating a geo_named_area term whose (category, name) pair is
\* absent from the lookup raises, and returns no query node, whether the
\* category is unknown or only the name is.
C2_UnknownRegionRaises ==
  (/\ search.err # "unset"
   /\ NamesRegion(query)
   /\ AbsentRegion(query["filters"][1][2][1][1], query["filters"][1][2][1][2]))
    => search.err # "none"

\* ------------------------------------------------------------------------
\* C3
\* ------------------------------------------------------------------------
\* C3: after any sequence of translate and hash calls the lookup holds, in
\* every category, the names and polygons it held right after __init__.
C3_GeojsonReadOnly == geojson = InitialGeojson

\* ------------------------------------------------------------------------
\* C4
\* ------------------------------------------------------------------------
\* C4: a filters dict with no key or with two or more keys is rejected by
\* the create_group_or_term of the translator and of the hasher: neither
\* call returns a result.
C4_NotOneKeyRejected ==
  ("filters" \in DOMAIN query /\ Len(query["filters"]) # 1)
    => (search.err # "none" /\ digest.err # "none")

\* ------------------------------------------------------------------------
\* C5
\* ------------------------------------------------------------------------
\* some dict, at any depth below group_or_term, has an operator name that
\* is not an operator of the schema
RECURSIVE HasUnknownOperator(_)
HasUnknownOperator(group_or_term) ==
  \E i \in 1..Len(group_or_term) :
    \/ group_or_term[i][1] \notin KnownOperators
    \/ /\ group_or_term[i][1] \in GroupOps
       /\ \E j \in 1..Len(group_or_term[i][2]) :
            HasUnknownOperator(group_or_term[i][2][j])

\* C5: a document of one-key dicts in which some operator name is not an
\* operator of the schema, at any depth, makes translate and hash raise.
C5_UnknownOperatorRaises ==
  (/\ "filters" \in DOMAIN query
   /\ WellKeyed(query["filters"])
   /\ HasUnknownOperator(query["filters"]))
    => (search.err # "none" /\ digest.err # "none")

\* ------------------------------------------------------------------------
\* C6
\* ------------------------------------------------------------------------
\* C6: translating a document and translating any document obtained from it
\* by permuting the members of its groups, at any depth, give trees with the
\* same node kinds and the same multisets of clauses (and one raises if the
\* other does).
C6_TranslateGroupOrder ==
  search.err # "unset" =>
    \A p \in DocGroupPerms(query) :
      LET r == translate(p, search.given, geojson)
      IN IF search.err = "none"
           THEN r.err = "none" /\ SearchEquiv(r.search, search.search)
           ELSE r.err # "none"

\* a translated document with nested groups, a permutation of which gives a
\* tree with its clauses in another order
C6_Witness ==
  /\ search.err = "none"
  /\ "filters" \in DOMAIN query
  /\ HasNestedGroups(query["filters"])
  /\ \E p \in DocGroupPerms(query) :
       translate(p, search.given, geojson).search # search.search

\* ------------------------------------------------------------------------
\* C7
\* ------------------------------------------------------------------------
\* C7: the digest of a document does not change when the names in the
\* fields list of any of its leaves are put in another order.
C7_HashFieldOrder ==
  digest.err = "none" =>
    \A p \in DocFieldPerms(query) : hash_query(p) = digest

\* a hashed number_range leaf whose fields list has another order
C7_Witness ==
  /\ digest.err = "none"
  /\ "filters" \in DOMAIN query
  /\ Len(query["filters"]) = 1
  /\ query["filters"][1][1] = "number_range"
  /\ \E p \in DocFieldPerms(query) : p # query

\* ------------------------------------------------------------------------
\* C8
\* ------------------------------------------------------------------------
OrCollapseOps ==
  {"or", "string_equals", "string_contains", "number_equals", "number_range",
   "exists", "geo_named_area", "geo_custom_area"}

\* the predicates an or group, a leaf with fields or a multipolygon resolves
\* to, in input order
Predicates(item) ==
  LET type == item[1]
      options == item[2]
  IN CASE type = "or" ->
            [i \in 1..Len(options) |-> create_group_or_term(options[i], geojson).node]
       [] type = "string_equals" ->
            [i \in 1..Len(options["fields"]) |->
               QTerm(S_data \o options["fields"][i], options["value"])]
       [] type = "string_contains" ->
            IF options["fields"] = <<>> THEN <<QMatch(S_meta_all, options["value"])>>
            ELSE [i \in 1..Len(options["fields"]) |->
                    QMatch(S_data \o options["fields"][i] \o S_full, options["value"])]
       [] type = "number_equals" ->
            [i \in 1..Len(options["fields"]) |->
               QTerm(S_data \o options["fields"][i] \o S_number, options["value"])]
       [] type = "number_range" ->
            [i \in 1..Len(options["fields"]) |->
               QRange(S_data \o options["fields"][i] \o S_number, RangeBounds(options))]
       [] type = "exists" ->
            IF Get(options, "geo_field", FALSE) THEN <<QExists(S_meta_geo)>>
            ELSE [i \in 1..Len(options["fields"]) |->
                    QExists(S_data \o options["fields"][i])]
       [] type = "geo_named_area" ->
            LET coordinates == geojson[options[1][1]][options[1][2]]
            IN [i \in 1..Len(coordinates) |-> PolygonQuery(coordinates[i])]
       [] type = "geo_custom_area" ->
            [i \in 1..Len(options) |-> PolygonQuery(options[i])]

\* node is the or-collapse of the predicates
OrCollapsed(predicates, node) ==
  /\ Len(predicates) = 1 => node = predicates[1]
  /\ Len(predicates) >= 2 =>
       /\ node.kind = "bool"
       /\ node.should = predicates
       /\ node.minimum_should_match = NumV(1)
       /\ node.filter = <<>>
       /\ node.must_not = <<>>

\* C8: when an or group, a leaf with a fields list or a multipolygon
\* resolves to one predicate, translate returns that predicate unwrapped;
\* when it resolves to two or more it returns a bool node whose should list
\* holds all of them in input order, with minimum_should_match 1.  This is
\* stated of the filters of the document and of each member of a top group.
C8_OrCollapse ==
  (search.err = "none" /\ "filters" \in DOMAIN query) =>
    LET item == FirstItem(query["filters"])
    IN /\ item[1] \in OrCollapseOps => OrCollapsed(Predicates(item), FilterNode)
       /\ item[1] \in GroupOps =>
            \A i \in 1..Len(item[2]) :
              FirstItem(item[2][i])[1] \in OrCollapseOps =>
                OrCollapsed(Predicates(FirstItem(item[2][i])),
                            create_group_or_term(item[2][i], geojson).node)

\* an or group of two members was translated: a leaf with two fields, which
\* became a should node, and an or group of one leaf, which became the leaf
C8_Witness ==
  /\ search.err = "none"
  /\ query = [filters |-> GOT("or", <<LeafFields, GOT("or", <<LeafNumber>>)>>)]
  /\ FilterNode.kind = "bool"
  /\ Len(FilterNode.should) = 2
  /\ FilterNode.should[1].kind = "bool"
  /\ Len(FilterNode.should[1].should) = 2
  /\ FilterNode.should[2].kind = "term"

\* ------------------------------------------------------------------------
\* C9
\* ------------------------------------------------------------------------
\* the translations of the members of a group, in group order
MemberNodes(group) ==
  [i \in 1..Len(group) |-> create_group_or_term(group[i], geojson).node]

C10_NotGroup ==
  (/\ search.err = "none"
   /\ "filters" \in DOMAIN query
   /\ FirstItem(query["filters"])[1] = "not")
    => /\ FilterNode.kind = "bool"
       /\ FilterNode.must_not = MemberNodes(FirstItem(query["filters"])[2])
       /\ FilterNode.filter = <<>>
       /\ FilterNode.should = <<>>
       /\ FilterNode.minimum_should_match = NoneV

\* a not group of one member was translated to a must_not of one clause
C10_Witness ==
  /\ search.err = "none"
  /\ "filters" \in DOMAIN query
  /\ FirstItem(query["filters"])[1] = "not"
  /\ Len(FirstItem(query["filters"])[2]) = 1
  /\ FilterNode.kind = "bool"
  /\ Len(FilterNode.must_not) = 1

\* ------------------------------------------------------------------------
\* C11
\* ------------------------------------------------------------------------
\* the filters of the document are one term of the given type
TopTerm(type) ==
  /\ "filters" \in DOMAIN query
  /\ query["filters"] # <<>>
  /\ FirstItem(query["filters"])[1] = type

TopOptions == FirstItem(query["filters"])[2]

\* the predicates of the filter node of a leaf with n fields
LeafPredicates(n) == IF n = 1 THEN <<FilterNode>> ELSE FilterNode.should

\* C11: for a number_range term translate emits, per field, a range on
\* data.<field>.number whose upper bound is present exactly when less_than
\* is given (lte when less_than_inclusive is true or omitted, lt when it is
\* false) and whose lower bound is present exactly when greater_than is
\* given (gte / gt likewise), a bound of value 0 included; the hasher
\* appends "<" or "<=" and the value, then ">" or ">=" and the value, under
\* the same conditions.
C11_NumberRange ==
  TopTerm("number_range") =>
    LET options == TopOptions
        fields == options["fields"]
        hasUpper == "less_than" \in DOMAIN options
        hasLower == "greater_than" \in DOMAIN options
        upperKey == IF "less_than_inclusive" \in DOMAIN options
                         /\ ~options["less_than_inclusive"] THEN "lt" ELSE "lte"
        lowerKey == IF "greater_than_inclusive" \in DOMAIN options
                         /\ ~options["greater_than_inclusive"] THEN "gt" ELSE "gte"
        keys == (IF hasUpper THEN {upperKey} ELSE {})
                  \cup (IF hasLower THEN {lowerKey} ELSE {})
        upperStr == IF hasUpper
                      THEN (IF upperKey = "lte" THEN <<"<", "=">> ELSE <<"<">>)
                             \o IntStr(options["less_than"].num)
                      ELSE <<>>
        lowerStr == IF hasLower
                      THEN (IF lowerKey = "gte" THEN <<">", "=">> ELSE <<">">>)
                             \o IntStr(options["greater_than"].num)
                      ELSE <<>>
    IN /\ search.err # "unset" =>
            /\ search.err = "none"
            /\ Len(LeafPredicates(Len(fields))) = Len(fields)
            /\ \A i \in 1..Len(fields) :
                 LET p == LeafPredicates(Len(fields))[i]
                 IN /\ p.kind = "range"
                    /\ p.field = S_data \o fields[i] \o S_number
                    /\ DOMAIN p.bounds = keys
                    /\ hasUpper => p.bounds[upperKey] = options["less_than"]
                    /\ hasLower => p.bounds[lowerKey] = options["greater_than"]
       /\ digest.err # "unset" =>
            /\ digest.err = "none"
            /\ digest.of = S_filters \o S_number_range
                             \o Join(<<",">>, Sorted(fields)) \o <<";">>
                             \o upperStr \o lowerStr

\* a range with an exclusive upper bound of 0 and a lower bound whose
\* inclusiveness is omitted was translated and hashed
C11_Witness ==
  /\ TopTerm("number_range")
  /\ search.err = "none"
  /\ digest.err = "none"
  /\ "less_than" \in DOMAIN TopOptions
  /\ TopOptions["less_than"] = NumV(0)
  /\ "less_than_inclusive" \in DOMAIN TopOptions
  /\ ~TopOptions["less_than_inclusive"]
  /\ "greater_than" \in DOMAIN TopOptions
  /\ "greater_than_inclusive" \notin DOMAIN TopOptions
  /\ FilterNode.kind = "range"
  /\ DOMAIN FilterNode.bounds = {"lt", "gte"}

\* ------------------------------------------------------------------------
\* C12
\* ------------------------------------------------------------------------
Reverse(l) == [i \in 1..Len(l) |-> l[Len(l) + 1 - i]]

\* the document with the outer ring of polygon k of its geo_custom_area
\* reversed
OuterReversed(doc, k) ==
  LET coordinates == FirstItem(doc["filters"])[2]
  IN [doc EXCEPT !["filters"] =
        GOT("geo_custom_area",
            [coordinates EXCEPT ![k] = <<Reverse(coordinates[k][1])>> \o Tail(coordinates[k])])]

\* C12: reversing the point order of the outer ring of a polygon of a
\* geo_custom_area term changes the hash: the ring points are hashed in
\* input order.
C12_OuterRingOrder ==
  (TopTerm("geo_custom_area") /\ digest.err = "none") =>
    \A k \in 1..Len(TopOptions) :
      LET h == hash_query(OuterReversed(query, k))
      IN h.err = "none" /\ h.of # digest.of

\* a geo_custom_area of two polygons, the first with holes, was hashed
C12_Witness ==
  /\ TopTerm("geo_custom_area")
  /\ digest.err = "none"
  /\ Len(TopOptions) = 2
  /\ Len(TopOptions[1]) = 3
  /\ OuterReversed(query, 1) # query

\* ------------------------------------------------------------------------
\* C13
\* ------------------------------------------------------------------------
\* the documents obtained by reordering the hole rings of the polygons of
\* the geo_custom_area of the document, each outer ring staying first
HolePerms(doc) ==
  LET coordinates == FirstItem(doc["filters"])[2]
  IN {[doc EXCEPT !["filters"] = GOT("geo_custom_area", c)] :
        c \in SeqProduct([k \in 1..Len(coordinates) |->
                            {<<coordinates[k][1]>> \o h :
                               h \in ListPerms(Tail(coordinates[k]))}])}

\* C13: reordering the hole rings of a polygon of a geo_custom_area term,
\* the outer ring staying first and the points of every ring unchanged,
\* does not change the hash.
C13_HoleOrder ==
  (TopTerm("geo_custom_area") /\ digest.err = "none") =>
    \A p \in HolePerms(query) : hash_query(p) = digest

\* a hashed geo_custom_area with a polygon of two different holes, so that
\* a reordering gives a different document
C13_Witness ==
  /\ TopTerm("geo_custom_area")
  /\ digest.err = "none"
  /\ \E k \in 1..Len(TopOptions) :
       Len(TopOptions[k]) = 3 /\ TopOptions[k][2] # TopOptions[k][3]
  /\ \E p \in HolePerms(query) : p # query

\* ------------------------------------------------------------------------
\* C14
\* ------------------------------------------------------------------------
\* the geo_polygon of a ring of [lon, lat] points: {lat, lon} in input order
RingNode(ring) ==
  [kind |-> "geo_polygon", field |-> S_meta_geo,
   points |-> [i \in 1..Len(ring) |-> [lat |-> ring[i][2], lon |-> ring[i][1]]]]

\* the node of one polygon: its outer ring alone, or a bool node that
\* filters on the outer ring and excludes every hole
PolygonNode(polygon) ==
  IF Len(polygon) = 1 THEN RingNode(polygon[1])
  ELSE [kind |-> "bool", filter |-> <<RingNode(polygon[1])>>,
        must_not |-> [i \in 1..Len(polygon) - 1 |-> RingNode(polygon[i + 1])],
        should |-> <<>>, minimum_should_match |-> NoneV]

\* the multipolygon a geo term of the document stands for: the coordinates
\* of a geo_custom_area, the loaded polygons of a geo_named_area
TopCoordinates ==
  IF TopTerm("geo_custom_area") THEN TopOptions
  ELSE InitialGeojson[TopOptions[1][1]][TopOptions[1][2]]

\* the document names a loaded region
TopNamedArea ==
  /\ TopTerm("geo_named_area")
  /\ Len(TopOptions) = 1
  /\ TopOptions[1][1] \in DOMAIN InitialGeojson
  /\ TopOptions[1][2] \in DOMAIN InitialGeojson[TopOptions[1][1]]

\* C14: for a geo_custom_area and for a geo_named_area alike, translate
\* maps each polygon of the multipolygon to a geo_polygon on meta.geo of its
\* outer ring when it has no holes, and otherwise to a bool node with
\* filter = [outer geo_polygon] and must_not = one geo_polygon per hole;
\* each [lon, lat] point becomes {lat, lon}, in input order; the polygon
\* nodes are or-collapsed.
C14_Multipolygon ==
  (/\ search.err = "none"
   /\ TopTerm("geo_custom_area") \/ TopNamedArea
   /\ Len(TopCoordinates) >= 1)
    => OrCollapsed([k \in 1..Len(TopCoordinates) |-> PolygonNode(TopCoordinates[k])],
                   FilterNode)

\* a named area of two polygons, the second with a hole, was translated to
\* a should node of a geo_polygon and a bool node
C14_Witness ==
  /\ search.err = "none"
  /\ TopNamedArea
  /\ Len(TopCoordinates) = 2
  /\ FilterNode.kind = "bool"
  /\ Len(FilterNode.should) = 2
  /\ FilterNode.should[1].kind = "geo_polygon"
  /\ FilterNode.should[2].kind = "bool"
  /\ Len(FilterNode.should[2].must_not) = 1

\* a custom area of one polygon with two holes was translated to one bool
\* node, not wrapped in a should node
C14_WitnessCustom ==
  /\ search.err = "none"
  /\ TopTerm("geo_custom_area")
  /\ Len(TopCoordinates) = 1
  /\ FilterNode.kind = "bool"
  /\ Len(FilterNode.filter) = 1
  /\ Len(FilterNode.must_not) = 2

\* ------------------------------------------------------------------------
\* C15
\* ------------------------------------------------------------------------
\* the canonical string of the filters of the document can be built
CanonicalFilters ==
  "filters" \in DOMAIN query => Hasher_create_group_or_term(query["filters"]).err = "none"

\* the input of the digest: "search:" and the text, then "filters:" and
\* the canonical string, each when its key is present
ExpectedFeed ==
  (IF "search" \in DOMAIN query
     THEN <<"s", "e", "a", "r", "c", "h", ":">> \o Format(query["search"]) ELSE <<>>)
    \o (IF "filters" \in DOMAIN query
          THEN <<"f", "i", "l", "t", "e", "r", "s", ":">>
                 \o Hasher_create_group_or_term(query["filters"]).s
          ELSE <<>>)

\* C15: hash_query always returns a digest (a 40-character lowercase hex
\* string), and the digest is that of exactly "search:" and the search text
\* when the document has a search key, followed by "filters:" and the
\* canonical filter string when it has a filters key, and of nothing else;
\* a document with neither key gives the digest of the empty input.
C15_HashFeed ==
  (digest.err # "unset" /\ CanonicalFilters) =>
    /\ digest.err = "none"
    /\ digest.of = ExpectedFeed

\* the same for the documents whose strings are all ASCII
C15_HashFeedAscii ==
  (digest.err # "unset" /\ CanonicalFilters /\ AsciiEncodable(ExpectedFeed)) =>
    /\ digest.err = "none"
    /\ digest.of = ExpectedFeed

AsAlone(t) ==
  IF calls[t].kind = "translate"
    THEN LET alone == translate(calls[t].doc, NoneV, InitialGeojson)
         IN /\ calls[t].err = alone.err
            /\ calls[t].err = "none" => calls[t].result = alone.search
    ELSE LET alone == hash_query(calls[t].doc)
         IN calls[t].err = alone.err /\ calls[t].result = alone.of

\* in every interleaving each call returns what it returns alone
C17_ResultsAsAlone ==
  \A t \in Threads : calls[t].state = "done" => AsAlone(t)

\* C17: translate and hash calls may run at the same time on one schema
\* object without locking: in every interleaving each call returns what it
\* returns when run alone, and no call writes state that another call
\* reads, the geojson lookup being written by nobody once it is loaded.
C17_ConcurrentCalls ==
  /\ C17_ResultsAsAlone
  /\ geojson = InitialGeojson

\* two translate calls are in progress, one of which has added a name to
\* the lookup the other is about to read
C17_Race ==
  /\ geojson # InitialGeojson
  /\ \E t, u \in Threads :
       /\ t # u
       /\ calls[t].state = "running" /\ calls[t].kind = "translate"
       /\ Len(calls[t].nodes) = 1
       /\ calls[u].state = "running" /\ calls[u].kind = "translate"
       /\ calls[u].nodes = <<>>
       /\ FirstItem(CallMembers(calls[u].doc)[1])[1] = "geo_named_area"

\* ------------------------------------------------------------------------
\* C18
\* ------------------------------------------------------------------------
\* the number of features of file c that load_geojson has added to its
\* lookup, and that lookup
Processed(c) ==
  IF c < loader.category THEN Len(loader.files[c])
  ELSE IF c > loader.category THEN 0
  ELSE IF loader.err = "none" THEN loader.n ELSE loader.n - 1

LookupOf(c) ==
  IF c < loader.category THEN loader.done[c]
  ELSE IF c = loader.category THEN loader.lookup ELSE <<>>

\* key k of the properties has a non-empty value
HasValue(properties, k) == k \in DOMAIN properties /\ properties[k] # <<>>

\* the value of the first key, in priority order, that has a non-empty
\* value
NameValue(feature, name_keys) ==
  LET first == CHOOSE i \in 1..Len(name_keys) :
                 /\ HasValue(feature.properties, name_keys[i])
                 /\ \A j \in 1..(i - 1) : ~HasValue(feature.properties, name_keys[j])
  IN feature.properties[name_keys[first]]

DisplayName(feature, name_keys) == capwords(NameValue(feature, name_keys))

\* C18: load_geojson files every feature under the string.capwords form of
\* the value of the first key of name_keys, in priority order, that has a
\* non-empty value: a key of lower priority is used only when every key of
\* higher priority is missing or empty, so the names of a lookup are those
\* display names and no others.
C18_NameResolution ==
  \A c \in 1..3 :
    DOMAIN LookupOf(c) =
      {DisplayName(loader.files[c][i], NameKeys[c]) : i \in 1..Processed(c)}

\* the country file was read up to two features: one with both keys, filed
\* under its NAME_EN and not under its NAME, and one whose NAME_EN is empty,
\* filed under the capwords form of its NAME
C18_Witness ==
  /\ loader.category = 1
  /\ loader.err = "none"
  /\ loader.n = 2
  /\ loader.files[1][1].properties = [NAME_EN |-> S_chad, NAME |-> <<>>]
  /\ loader.files[1][2].properties =
       [NAME_EN |-> <<>>, NAME |-> <<"F", "R", "A", "N", "C", "E">>]
  /\ DOMAIN loader.lookup = {<<"C", "h", "a", "d">>, <<"F", "r", "a", "n", "c", "e">>}

\* ------------------------------------------------------------------------
\* C19
\* ------------------------------------------------------------------------
\* the polygons of a feature: the coordinates of a Polygon as one polygon,
\* each polygon of a MultiPolygon
FeaturePolygons(feature) ==
  IF feature.geometry.type = "Polygon" THEN <<feature.geometry.coordinates>>
  ELSE feature.geometry.coordinates

\* the polygons of the first k features of file c that go by the display
\* name, in the order in which the file lists them
RECURSIVE PolygonStream(_, _, _)
PolygonStream(c, k, name) ==
  IF k = 0 THEN <<>>
  ELSE PolygonStream(c, k - 1, name)
         \o (IF DisplayName(loader.files[c][k], NameKeys[c]) = name
               THEN FeaturePolygons(loader.files[c][k]) ELSE <<>>)

\* the place of the first occurrence of x in the list l
FirstIndex(l, x) ==
  CHOOSE i \in 1..Len(l) : l[i] = x /\ \A j \in 1..(i - 1) : l[j] # x

\* C19: load_geojson merges the features that share a display name into
\* one MultiPolygon: the list of the name holds every polygon of every such
\* feature and nothing else, in the order of first occurrence, and never
\* holds two equal polygons.
C19_Merge ==
  \A c \in 1..3 :
    \A name \in DOMAIN LookupOf(c) :
      LET l == LookupOf(c)[name]
          stream == PolygonStream(c, Processed(c), name)
      IN /\ \A k \in 1..Len(stream) : \E i \in 1..Len(l) : l[i] = stream[k]
         /\ \A i \in 1..Len(l) : \E k \in 1..Len(stream) : stream[k] = l[i]
         /\ \A i, j \in 1..Len(l) : i < j => l[i] # l[j]
         /\ \A i, j \in 1..Len(l) :
              i < j => FirstIndex(stream, l[i]) < FirstIndex(stream, l[j])

\* two features of one display name were merged: a MultiPolygon of two
\* polygons and a Polygon equal to the first of them, which was not added
\* a second time
C19_Witness ==
  /\ loader.category = 1
  /\ loader.err = "none"
  /\ loader.n = 2
  /\ LET name == <<"F", "r", "a", "n", "c", "e">>
     IN /\ DOMAIN loader.lookup = {name}
        /\ Len(PolygonStream(1, 2, name)) = 3
        /\ loader.files[1][1].geometry.type = "MultiPolygon"
        /\ loader.files[1][2].geometry.type = "Polygon"
        /\ loader.lookup[name] = << <<RingA>>, <<RingB, HoleA>> >>

\* ------------------------------------------------------------------------
\* C20
\* ------------------------------------------------------------------------
\* a feature with no non-empty name value, no geometry or no coordinates
Malformed(feature, name_keys) ==
  \/ \A i \in 1..Len(name_keys) : ~HasValue(feature.properties, name_keys[i])
  \/ "geometry" \notin DOMAIN feature
  \/ "coordinates" \notin DOMAIN feature.geometry

\* feature i of file c is malformed
MalformedAt(c, i) == Malformed(loader.files[c][i], NameKeys[c])

\* C20: loading succeeds for every feature of every category or fails as a
\* whole: load_geojson raises at a malformed feature, nothing is read after
\* it and no schema object is constructed, so that translate runs only on
\* an object whose lookup holds every polygon of every feature of the three
\* files.
C20_AllOrNothing ==
  /\ \A c \in 1..3 : \A i \in 1..Len(loader.files[c]) :
       MalformedAt(c, i) =>
         /\ ~loader.built
         /\ geojson = <<>>
         /\ loader.category <= c
         /\ (loader.category = c /\ loader.n >= i) => (loader.n = i /\ loader.err # "none")
  /\ loader.err # "none" => ~loader.built /\ geojson = <<>>
  /\ search.err # "unset" => loader.built
  /\ loader.built =>
       \A c \in 1..3 : \A i \in 1..Len(loader.files[c]) :
         LET name == DisplayName(loader.files[c][i], NameKeys[c])
             polygons == FeaturePolygons(loader.files[c][i])
         IN /\ name \in DOMAIN geojson[Categories[c]]
            /\ \A k \in 1..Len(polygons) :
                 \E j \in 1..Len(geojson[Categories[c]][name]) :
                   geojson[Categories[c]][name][j] = polygons[k]

\* the country file was loaded, the marine file raised at its second
\* feature, which has no name value: no object exists
C20_Witness ==
  /\ loader.category = 2
  /\ Len(loader.done) = 1
  /\ Len(loader.files[1]) >= 1
  /\ loader.n = 2
  /\ MalformedAt(2, 2)
  /\ loader.err = "StopIteration"
  /\ ~loader.built
  /\ geojson = <<>>

\* a schema object exists and has translated a document
C20_WitnessBuilt ==
  /\ loader.built
  /\ Len(loader.files[1]) = MaxFeatures
  /\ search.err = "none"

\* ------------------------------------------------------------------------
\* C21
\* ------------------------------------------------------------------------
\* the leaves of a query tree: the nodes that are not bool nodes
RECURSIVE TreeLeaves(_)
TreeLeaves(node) ==
  LET RECURSIVE Each(_)
      Each(l) == IF l = <<>> THEN <<>> ELSE TreeLeaves(Head(l)) \o Each(Tail(l))
  IN IF node.kind = "bool"
       THEN Each(node.filter) \o Each(node.must_not) \o Each(node.should)
       ELSE <<node>>

\* data.<field><suffix>
DataField(field, suffix) == <<"d", "a", "t", "a", ".">> \o field \o suffix

MetaAll == <<"m", "e", "t", "a", ".", "a", "l", "l">>
MetaGeo == <<"m", "e", "t", "a", ".", "g", "e", "o">>
DotFull == <<".", "f", "u", "l", "l">>
DotNumber == <<".", "n", "u", "m", "b", "e", "r">>

\* every predicate of the filter node is of the kind and on the field that
\* the logical field of the same place gives with the suffix
FieldsPrefixed(kind, suffix) ==
  LET fields == TopOptions["fields"]
      predicates == LeafPredicates(Len(fields))
  IN /\ Len(predicates) = Len(fields)
     /\ \A i \in 1..Len(fields) :
          /\ predicates[i].kind = kind
          /\ predicates[i].field = DataField(fields[i], suffix)

\* C21: in a translated tree string_equals and exists are on data.<field>,
\* string_contains on data.<field>.full, number_equals and number_range on
\* data.<field>.number; string_contains with an empty fields list is one
\* match on meta.all with the and operator; exists with geo_field true and
\* the geo leaves are on meta.geo; every other field of every tree starts
\* with data.
C21_FieldPrefix ==
  (search.err = "none" /\ "filters" \in DOMAIN query) =>
    /\ TopTerm("string_equals") => FieldsPrefixed("term", <<>>)
    /\ TopTerm("number_equals") => FieldsPrefixed("term", DotNumber)
    /\ TopTerm("number_range") => FieldsPrefixed("range", DotNumber)
    /\ TopTerm("string_contains") =>
         IF TopOptions["fields"] = <<>>
           THEN FilterNode = [kind |-> "match", field |-> MetaAll,
                              query |-> TopOptions["value"], operator |-> "and"]
           ELSE FieldsPrefixed("match", DotFull)
    /\ TopTerm("exists") =>
         IF "geo_field" \in DOMAIN TopOptions /\ TopOptions["geo_field"]
           THEN FilterNode = [kind |-> "exists", field |-> MetaGeo]
           ELSE FieldsPrefixed("exists", <<>>)
    /\ TopTerm("geo_point") =>
         FilterNode.kind = "geo_distance" /\ FilterNode.field = MetaGeo
    /\ \A i \in 1..Len(TreeLeaves(FilterNode)) :
         LET leaf == TreeLeaves(FilterNode)[i]
         IN IF leaf.kind \in {"geo_polygon", "geo_distance"} THEN leaf.field = MetaGeo
            ELSE \/ leaf.field \in {MetaAll, MetaGeo}
                 \/ /\ Len(leaf.field) > 5
                    /\ SubSeq(leaf.field, 1, 5) = <<"d", "a", "t", "a", ".">>

\* a string_contains over two fields was translated to two matches on the
\* .full fields
C21_Witness ==
  /\ search.err = "none"
  /\ TopTerm("string_contains")
  /\ Len(TopOptions["fields"]) = 2
  /\ FilterNode.kind = "bool"
  /\ FilterNode.should[1].field = DataField(TopOptions["fields"][1], DotFull)
  /\ FilterNode.should[2].field = DataField(TopOptions["fields"][2], DotFull)
  /\ TopOptions["fields"][1] # TopOptions["fields"][2]

\* ------------------------------------------------------------------------
\* C22
\* ------------------------------------------------------------------------
\* the clauses of the search object translate was given: none for a fresh
\* one
GivenClauses == IF search.given = NoneV THEN <<>> ELSE search.given.clauses

\* C22: translate returns the search object it was given, or a fresh one,
\* with a match on meta.all with the and operator added when the document
\* has a search key, and then the translated filter tree added when it has
\* a filters key: the search clause before the filters clause, nothing for
\* a document with neither key.
C22_TranslateSearch ==
  search.err = "none" =>
    search.search =
      GivenClauses
        \o (IF "search" \in DOMAIN query
              THEN <<[kind |-> "match", field |-> MetaAll, query |-> query["search"],
                      operator |-> "and"]>>
              ELSE <<>>)
        \o (IF "filters" \in DOMAIN query
              THEN <<create_group_or_term(query["filters"], geojson).node>>
              ELSE <<>>)

\* a document with both keys was translated on a search object that held a
\* clause: three clauses, the given one, the search and the filters
C22_Witness ==
  /\ search.err = "none"
  /\ search.given # NoneV
  /\ "search" \in DOMAIN query
  /\ "filters" \in DOMAIN query
  /\ Len(search.search) = 3
  /\ search.search[1] = search.given.clauses[1]
  /\ search.search[2].kind = "match"
  /\ search.search[3].kind # "match"

\* the document with no key was translated on a search object that held a
\* clause, which came back as it was
C22_WitnessUnaltered ==
  /\ search.err = "none"
  /\ search.given # NoneV
  /\ query = EmptyDoc
  /\ search.search = search.given.clauses

\* ------------------------------------------------------------------------
\* C23
\* ------------------------------------------------------------------------
\* a document of the grammar: one-key dicts with operators of the schema,
\* which hash_query and translate both accept
WellFormed(doc) ==
  /\ "filters" \in DOMAIN doc =>
       WellKeyed(doc["filters"]) /\ ~HasUnknownOperator(doc["filters"])
  /\ hash_query(doc).err = "none"
  /\ translate(doc, NoneV, InitialGeojson).err = "none"

\* the two documents translate to the same search text and the same filter
\* tree up to the order of group members and of fields
SameQuery(d1, d2) ==
  SearchEquiv(translate(d1, NoneV, InitialGeojson).search,
              translate(d2, NoneV, InitialGeojson).search)

\* C23: two well-formed documents that give hash_query the same digest
\* input translate to equivalent queries.
C23_CacheKeySound ==
  (digest.err = "none" /\ WellFormed(query)) =>
    \A d \in Docs :
      (hash_query(d) = digest /\ WellFormed(d)) => SameQuery(d, query)

\* the same for the documents whose strings hold none of the separators
C23_CacheKeySoundPlain ==
  (digest.err = "none" /\ WellFormed(query) /\ query \notin SeparatorDocs) =>
    \A d \in Docs \ SeparatorDocs :
      (hash_query(d) = digest /\ WellFormed(d)) => SameQuery(d, query)

\* ------------------------------------------------------------------------
\* C24
\* ------------------------------------------------------------------------
\* C24: the hasher accepts exactly the documents the translator accepts:
\* for a document that was both translated and hashed, hash_query raised
\* if and only if translate raised.
C24_SameErrors ==
  (search.err # "unset" /\ digest.err # "unset") =>
    (search.err = "none" <=> digest.err = "none")

\* the same for the documents that name no region and whose strings are
\* all ASCII
C24_SameErrorsElsewhere ==
  (/\ search.err # "unset"
   /\ digest.err # "unset"
   /\ digest.err # "UnicodeEncodeError"
   /\ search.err # "KeyError" \/ digest.err # "none")
    => (search.err = "none" <=> digest.err = "none")

\* ------------------------------------------------------------------------
\* C25
\* ------------------------------------------------------------------------
\* the filters of the document are an and / or group of exactly one member
OneMemberGroup ==
  /\ "filters" \in DOMAIN query
  /\ query["filters"] # <<>>
  /\ FirstItem(query["filters"])[1] \in {"and", "or"}
  /\ Len(FirstItem(query["filters"])[2]) = 1

\* the document with the group replaced by its only member
Unwrapped == [query EXCEPT !["filters"] = FirstItem(query["filters"])[2][1]]

\* C25: for an and / or group of exactly one member the digest is that of
\* the member alone, as translate returns the member unwrapped.
C25_CollapseInHash ==
  (OneMemberGroup /\ digest.err = "none") => digest = hash_query(Unwrapped)

\* C25, amended: for an and / or group of exactly one member the canonical
\* string keeps the wrapper: it is "and:[" or "or:[", the string of the
\* member and "]", so the digest input differs from that of the member
\* alone, although translate gives both documents the same tree.
C25_WrapperKept ==
  (OneMemberGroup /\ digest.err = "none") =>
    LET op == FirstItem(query["filters"])[1]
        member == hash_query(Unwrapped)
        name == IF op = "and" THEN <<"a", "n", "d">> ELSE <<"o", "r">>
        part == <<"f", "i", "l", "t", "e", "r", "s", ":">>
    IN /\ member.err = "none"
       /\ digest.of = part \o name \o <<":", "[">>
                        \o SubSeq(member.of, Len(part) + 1, Len(member.of)) \o <<"]">>
       /\ digest.of # member.of
       /\ search.err = "none" =>
            search.search = translate(Unwrapped, search.given, geojson).search

\* an or group of one leaf was hashed and translated
C25_Witness ==
  /\ OneMemberGroup
  /\ FirstItem(query["filters"])[1] = "or"
  /\ digest.err = "none"
  /\ search.err = "none"
  /\ FilterNode.kind # "bool"

\* ------------------------------------------------------------------------
\* C26
\* ------------------------------------------------------------------------
\* the optional options of a term type and the defaults the code reads them
\* with
OptionDefaults(type) ==
  IF type = "number_range"
    THEN [less_than_inclusive |-> TRUE, greater_than_inclusive |-> TRUE]
  ELSE IF type = "geo_point" THEN [radius |-> NumV(0), radius_unit |-> StrV(S_m)]
  ELSE [geo_field |-> FALSE]

\* the document whose filters are the top term with the options `written`
\* added to its options
WithOptions(written) ==
  [query EXCEPT !["filters"] =
     GOT(FirstItem(query["filters"])[1],
         [k \in DOMAIN TopOptions \cup DOMAIN written |->
            IF k \in DOMAIN written THEN written[k] ELSE TopOptions[k]])]

\* the document gets the tree and the digest that were computed for `query`
SameTreeAndDigest(doc) ==
  /\ digest.err # "unset" => digest = hash_query(doc)
  /\ search.err # "unset" =>
       LET t == translate(doc, search.given, geojson)
       IN search.err = t.err /\ search.search = t.search

\* the defaults of the optional options that the top term leaves out
Omitted(type) ==
  [k \in DOMAIN OptionDefaults(type) \ DOMAIN TopOptions |-> OptionDefaults(type)[k]]

\* the inclusive flags of the top term whose bound is not given
UnboundFlags ==
  {f \in {"less_than_inclusive", "greater_than_inclusive"} :
     (IF f = "less_than_inclusive" THEN "less_than" ELSE "greater_than")
       \notin DOMAIN TopOptions}

\* C26: a number_range, geo_point or exists term that leaves optional
\* options out gets the same tree and the same digest as the term with the
\* defaults written out (inclusive flags true, radius 0, radius_unit m,
\* geo_field false), whichever of the omitted options are written; and a
\* number_range term gets the same tree and digest whatever the value of an
\* inclusive flag whose bound is not given.
C26_DefaultsEqualOmitted ==
  /\ \A type \in {"number_range", "geo_point", "exists"} :
       TopTerm(type) =>
         \A K \in SUBSET DOMAIN Omitted(type) :
           SameTreeAndDigest(WithOptions([k \in K |-> Omitted(type)[k]]))
  /\ TopTerm("number_range") =>
       \A F \in SUBSET UnboundFlags : \A fl \in [F -> BOOLEAN] :
         SameTreeAndDigest(WithOptions(fl))

\* a number_range with an upper bound and no flag for it, and a flag of
\* false for the lower bound that is not given, was hashed and translated
C26_Witness ==
  /\ TopTerm("number_range")
  /\ DOMAIN TopOptions = {"fields", "less_than", "greater_than_inclusive"}
  /\ ~TopOptions["greater_than_inclusive"]
  /\ digest.err = "none"
  /\ search.err = "none"

\* a geo_point without radius and unit was hashed and translated
C26_WitnessGeoPoint ==
  /\ TopTerm("geo_point")
  /\ DOMAIN TopOptions = {"latitude", "longitude"}
  /\ digest.err = "none"
  /\ search.err = "none"

\* ------------------------------------------------------------------------
\* get_fields and its cache, lib/basic_query/utils.py
\* ------------------------------------------------------------------------
S__id == <<"_", "i", "d">>
S_integer == <<"i", "n", "t", "e", "g", "e", "r">>
S_string == <<"s", "t", "r", "i", "n", "g">>

\* the elements of the list l
Elements(l) == {l[i] : i \in 1..Len(l)}

\* sorted(s) for a set of strings
RECURSIVE SortedSet(_)
SortedSet(s) ==
  IF s = {} THEN <<>>
  ELSE LET x == CHOOSE y \in s : TRUE IN Insert(x, SortedSet(s \ {x}))

\* the loop over reversed(all_details.values()): the columns of each
\* version, newest first, that are not in seen_fields yet
RECURSIVE DetailColumns(_, _)
DetailColumns(all_details, seen_fields) ==
  IF all_details = <<>> THEN <<>>
  ELSE LET details == all_details[Len(all_details)]
           columns == SelectSeq(details, LAMBDA column : column \notin seen_fields)
       IN columns \o DetailColumns(SubSeq(all_details, 1, Len(all_details) - 1),
                                   seen_fields \cup Elements(columns))

\* the list field_names once the unseen mapped fields are added, sorted
field_names(all_details, mapped_fields) ==
  LET field_names == DetailColumns(all_details, {S__id})
      seen_fields == {S__id} \cup Elements(field_names)
  IN field_names
       \o SelectSeq(SortedSet(mapped_fields), LAMBDA field : field \notin seen_fields)

\* the list `fields`: _id, then the field names that have documents at the
\* rounded version (hits: the names whose response has hits.total > 0)
FieldList(all_details, mapped_fields, hits) ==
  <<[id |-> S__id, type |-> S_integer]>>
    \o [i \in 1..Len(SelectSeq(field_names(all_details, mapped_fields),
                               LAMBDA field : field \in hits)) |->
          [id |-> SelectSeq(field_names(all_details, mapped_fields),
                            LAMBDA field : field \in hits)[i],
           type |-> S_string]]

\* cache with value stored under key
Store(cache, key, value) ==
  [k \in DOMAIN cache \cup {key} |-> IF k = key THEN value ELSE cache[k]]

\* get_fields that computes and stores the value whether or not the key is
\* cached
get_fields_Refresh(cache, resource_id, rounded_version, mapped_fields, all_details, hits) ==
  LET cache_key == <<resource_id, rounded_version>>
  IN IF rounded_version = NoneV
       THEN [cache |-> cache, queried |-> TRUE,
             result |-> [mapping |-> mapped_fields,
                         fields |-> <<[id |-> S__id, type |-> S_integer]>>]]
     ELSE LET value == [mapping |-> mapped_fields,
                        fields |-> FieldList(all_details, mapped_fields, hits)]
          IN [cache |-> Store(cache, cache_key, value), queried |-> TRUE,
              result |-> value]

\* get_fields on the cache `cache`, given what the backend answers: the
\* rounded version, the data properties of the mapping, the columns of the
\* ingestion details in ascending version order and the fields with hits;
\* gives the cache afterwards, whether the mapping was fetched, and the
\* (mapping, fields) returned
get_fields(cache, resource_id, rounded_version, mapped_fields, all_details, hits) ==
  LET cache_key == <<resource_id, rounded_version>>
  IN IF cache_key \in DOMAIN cache
       THEN [cache |-> cache, queried |-> FALSE, result |-> cache[cache_key]]
     ELSE IF rounded_version = NoneV
       THEN [cache |-> cache, queried |-> TRUE,
             result |-> [mapping |-> mapped_fields,
                         fields |-> <<[id |-> S__id, type |-> S_integer]>>]]
     ELSE LET value == [mapping |-> mapped_fields,
                        fields |-> FieldList(all_details, mapped_fields, hits)]
          IN [cache |-> Store(cache, cache_key, value), queried |-> TRUE,
              result |-> value]

\* the resources, what get_rounded_versions can answer, and what the backend
\* can hold for a resource
Resources == {"res-a", "res-b"}
RoundedVersions == {NoneV, NumV(1), NumV(2)}
MappedFields == {{<<"a">>}, {<<"a">>, <<"b">>}}
AllDetails == {<<>>, << <<<<"a">>>>, <<S__id, <<"b">>, <<"a">>>> >>}
Hits == {{<<"a">>}, {<<"a">>, <<"b">>}}

\* utils.get_fields(resource_id, version)
GetFields(resource_id, rounded_version) ==
  /\ \E mapped_fields \in MappedFields, all_details \in AllDetails, hits \in Hits :
       LET r == get_fields(field_cache, resource_id, rounded_version, mapped_fields,
                           all_details, hits)
       IN /\ field_cache' = r.cache
          /\ fields_call' = [key |-> <<resource_id, rounded_version>>,
                             hit |-> <<resource_id, rounded_version>> \in DOMAIN field_cache,
                             queried |-> r.queried, result |-> r.result]
  /\ UNCHANGED schema
  /\ UNCHANGED <<feeder, queues, upsert, versions_call>>

FieldsNext ==
  \E resource_id \in Resources, rounded_version \in RoundedVersions :
    GetFields(resource_id, rounded_version)

FieldsInit ==
  /\ geojson = InitialGeojson
  /\ query = EmptyDoc
  /\ search = NoSearch
  /\ digest = NoDigest
  /\ calls = NoCalls
  /\ loader = Loaded
  /\ DatastoreInit

FieldsSpec == FieldsInit /\ [][FieldsNext]_vars

C27_WitnessNone ==
  /\ fields_call.key # <<>>
  /\ fields_call.key[2] = NoneV
  /\ DOMAIN field_cache # {}

\* ------------------------------------------------------------------------
\* DatastoreFeeder, lib/ingestion/feeders.py
\* ------------------------------------------------------------------------
\* largest number of column names fed to a feeder, over all its calls
MaxFed == 4

\* update_columns(columns) on the feeder f; `fed` keeps every name the loop
\* went over, in order
RECURSIVE update_columns(_, _)
\* update_columns that appends every name that is not _id, seen or not
RECURSIVE update_columns_Repeat(_, _)
update_columns_Repeat(f, columns) ==
  IF columns = <<>> THEN f
  ELSE LET column == Head(columns)
           g == IF column # S__id
                  THEN [f EXCEPT !.all_columns = @ \cup {column},
                                 !.columns = Append(@, column),
                                 !.fed = Append(@, column)]
                  ELSE [f EXCEPT !.fed = Append(@, column)]
       IN update_columns_Repeat(g, Tail(columns))

update_columns(f, columns) ==
  IF columns = <<>> THEN f
  ELSE LET column == Head(columns)
           g == IF column # S__id /\ column \notin f.all_columns
                  THEN [f EXCEPT !.all_columns = @ \cup {column},
                                 !.columns = Append(@, column),
                                 !.fed = Append(@, column)]
                  ELSE [f EXCEPT !.fed = Append(@, column)]
       IN update_columns(g, Tail(columns))

\* the id_offset the feeder was constructed with
IdOffset == 100

\* create_record(number, data) on the feeder f, keys being data.keys() in
\* the order the dict gives them; the record keeps its id and the keys left
\* in data once _id is popped
create_record(f, number, keys, data) ==
  LET g == update_columns(f, keys)
      record_id == IF S__id \in DOMAIN data THEN data[S__id].num ELSE IdOffset + number
  IN [g EXCEPT !.record = [id |-> record_id, data |-> DOMAIN data \ {S__id}]]

ColumnNames == {S__id, <<"a">>, <<"b">>, <<"c">>}

\* lists of distinct column names: a header row, the keys of a dict
ColumnLists ==
  {l \in SeqsUpTo(ColumnNames, 3) : \A i, j \in 1..Len(l) : i # j => l[i] # l[j]}

\* feeder.update_columns(columns), as SVFeeder.records calls it with the
\* header row when there is one
UpdateColumns(columns) ==
  /\ columns # <<>>
  /\ Len(feeder.fed) + Len(columns) <= MaxFed
  /\ feeder' = update_columns(feeder, columns)
  /\ UNCHANGED schema
  /\ UNCHANGED <<field_cache, fields_call, queues, upsert, versions_call>>

\* feeder.create_record(number, data) for a row
CreateRecord(number, keys) ==
  /\ Len(feeder.fed) + Len(keys) <= MaxFed
  /\ feeder' = create_record(feeder, number, keys,
                             [k \in Elements(keys) |->
                                IF k = S__id THEN NumV(7) ELSE StrV(<<"v">>)])
  /\ UNCHANGED schema
  /\ UNCHANGED <<field_cache, fields_call, queues, upsert, versions_call>>

FeederNext ==
  \/ \E columns \in ColumnLists : UpdateColumns(columns)
  \/ \E number \in 1..2, keys \in ColumnLists : CreateRecord(number, keys)

FeederInit ==
  /\ geojson = InitialGeojson
  /\ query = EmptyDoc
  /\ search = NoSearch
  /\ digest = NoDigest
  /\ calls = NoCalls
  /\ loader = Loaded
  /\ DatastoreInit

FeederSpec == FeederInit /\ [][FeederNext]_vars

\* ------------------------------------------------------------------------
\* C28
\* ------------------------------------------------------------------------
\* the names of the list l other than _id, each once, in the order of their
\* first appearance
RECURSIVE FirstAppearances(_)
FirstAppearances(l) ==
  IF l = <<>> THEN <<>>
  ELSE LET before == FirstAppearances(SubSeq(l, 1, Len(l) - 1))
           last == l[Len(l)]
       IN IF last = S__id \/ last \in Elements(before) THEN before
          ELSE Append(before, last)

\* C28: after every update_columns or create_record call, columns holds
\* the names fed so far other than _id, each once, in the order of their
\* first appearance, and its elements are all_columns; the call only
\* appends to columns, and a call that brings no new name changes neither
\* columns nor all_columns.
C28_Columns ==
  [][/\ feeder'.columns = FirstAppearances(feeder'.fed)
     /\ Elements(feeder'.columns) = feeder'.all_columns
     /\ Cardinality(feeder'.all_columns) = Len(feeder'.columns)
     /\ S__id \notin feeder'.all_columns
     /\ Len(feeder.columns) <= Len(feeder'.columns)
     /\ SubSeq(feeder'.columns, 1, Len(feeder.columns)) = feeder.columns
     /\ Elements(feeder'.fed) \ {S__id} \subseteq feeder.all_columns =>
          /\ feeder'.columns = feeder.columns
          /\ feeder'.all_columns = feeder.all_columns]_vars

\* names were fed again, _id among them, after b was seen before a
C28_Witness ==
  /\ feeder.columns = << <<"b">>, <<"a">> >>
  /\ Len(feeder.fed) = 4
  /\ S__id \in Elements(feeder.fed)
  /\ feeder.record # <<>>

\* ------------------------------------------------------------------------
\* datastore_upsert, logic/action.py
\* ------------------------------------------------------------------------
\* largest number of jobs on the queues
MaxJobs == 2

\* utils.ensure_importing_queue_exists(): afterwards there is a queue named
\* importing; the jobs of an existing one stay
ensure_importing_queue_exists(qs) ==
  [q \in DOMAIN qs \cup {"importing"} |-> IF q \in DOMAIN qs THEN qs[q] ELSE <<>>]

\* enqueue_job(import_resource_data, args=args, queue=queue)
enqueue_job(qs, args, queue) ==
  [q \in DOMAIN qs \cup {queue} |->
     IF q = queue THEN (IF q \in DOMAIN qs THEN qs[q] ELSE <<>>) \o <<args>>
     ELSE qs[q]]

\* datastore_upsert that goes on when check_version_is_valid answers false
datastore_upsert_AnyVersion(qs, data_dict, valid, allowed, version_valid, now) ==
  LET data == Get(data_dict, "records", NoneV)
      version == Get(data_dict, "version", NumV(now))
      index_action == Get(data_dict, "index_action", StrV(<<"r", "e", "m", "o", "v", "e">>))
      job == <<data_dict["resource_id"], version, index_action, data>>
  IN IF ~valid
       THEN [queues |-> qs, trace |-> <<"validate">>, outcome |-> "ValidationError"]
     ELSE IF ~allowed
       THEN [queues |-> qs, trace |-> <<"validate", "check_access">>,
             outcome |-> "NotAuthorized"]
     ELSE [queues |-> enqueue_job(ensure_importing_queue_exists(qs), job, "importing"),
           trace |-> <<"validate", "check_access", "check_version_is_valid",
                       "ensure_importing_queue_exists", "enqueue_job">>,
           outcome |-> "queued"]

\* datastore_upsert(context, data_dict) on the queues qs, given what the
\* calls it makes answer: whether validate accepts the data_dict, whether
\* check_access allows the user, what check_version_is_valid returns, and the
\* timestamp of now; gives the queues afterwards, the calls made in order
\* and what the action returned or raised
datastore_upsert(qs, data_dict, valid, allowed, version_valid, now) ==
  LET data == Get(data_dict, "records", NoneV)
      version == Get(data_dict, "version", NumV(now))
      index_action == Get(data_dict, "index_action", StrV(<<"r", "e", "m", "o", "v", "e">>))
      job == <<data_dict["resource_id"], version, index_action, data>>
  IN IF ~valid
       THEN [queues |-> qs, trace |-> <<"validate">>, outcome |-> "ValidationError"]
     ELSE IF ~allowed
       THEN [queues |-> qs, trace |-> <<"validate", "check_access">>,
             outcome |-> "NotAuthorized"]
     ELSE IF ~version_valid
       THEN [queues |-> qs,
             trace |-> <<"validate", "check_access", "check_version_is_valid">>,
             outcome |-> "ValidationError"]
     ELSE [queues |-> enqueue_job(ensure_importing_queue_exists(qs), job, "importing"),
           trace |-> <<"validate", "check_access", "check_version_is_valid",
                       "ensure_importing_queue_exists", "enqueue_job">>,
           outcome |-> "queued"]

\* the number of jobs on the queues qs
RECURSIVE JobCount(_)
JobCount(qs) ==
  IF DOMAIN qs = {} THEN 0
  ELSE LET q == CHOOSE x \in DOMAIN qs : TRUE
       IN Len(qs[q]) + JobCount([y \in DOMAIN qs \ {q} |-> qs[y]])

\* the data_dicts of the calls: the optional keys present or not
UpsertDicts ==
  {[resource_id |-> r] : r \in Resources}
    \cup {[resource_id |-> r, version |-> NumV(5)] : r \in Resources}
    \cup {[resource_id |-> r, index_action |-> StrV(<<"s", "k", "i", "p">>)] :
            r \in Resources}
    \cup {[resource_id |-> r, version |-> NumV(5),
           records |-> StrV(<<"r", "o", "w", "s">>)] : r \in Resources}

\* the timestamp of datetime.now() during the calls
Now == 9

\* a call of the action datastore_upsert
DatastoreUpsert(data_dict, valid, allowed, version_valid) ==
  /\ JobCount(queues) < MaxJobs
  /\ LET r == datastore_upsert(queues, data_dict, valid, allowed, version_valid, Now)
     IN /\ queues' = r.queues
        /\ upsert' = [trace |-> r.trace, outcome |-> r.outcome,
                      answers |-> [valid |-> valid, allowed |-> allowed,
                                   version_valid |-> version_valid]]
  /\ UNCHANGED schema
  /\ UNCHANGED <<field_cache, fields_call, feeder, versions_call>>

UpsertNext ==
  \E data_dict \in UpsertDicts, valid, allowed, version_valid \in BOOLEAN :
    DatastoreUpsert(data_dict, valid, allowed, version_valid)

UpsertInit ==
  /\ geojson = InitialGeojson
  /\ query = EmptyDoc
  /\ search = NoSearch
  /\ digest = NoDigest
  /\ calls = NoCalls
  /\ loader = Loaded
  /\ DatastoreInit

UpsertSpec == UpsertInit /\ [][UpsertNext]_vars

\* ------------------------------------------------------------------------
\* C29
\* ------------------------------------------------------------------------
\* the position of the call named c in the trace of the call made in this
\* step, 0 if it was not made
TracePos(trace, c) ==
  IF \E i \in 1..Len(trace) : trace[i] = c
    THEN CHOOSE i \in 1..Len(trace) : trace[i] = c
    ELSE 0

\* C29: a datastore_upsert call puts a job on a queue only after validate,
\* check_access and check_version_is_valid have passed, in this order, and
\* after ensure_importing_queue_exists; when check_version_is_valid answers
\* false it raises ValidationError and the queues stay as they are; when all
\* checks pass exactly one job is added, on the queue importing, and nothing
\* else changes on the queues.
C29_EnqueueAfterChecks ==
  [][LET t == upsert'.trace
         a == upsert'.answers
         added == JobCount(queues') - JobCount(queues)
     IN /\ added \in {0, 1}
        /\ added = 1 =>
             /\ a.valid /\ a.allowed /\ a.version_valid
             /\ 0 < TracePos(t, "validate")
             /\ TracePos(t, "validate") < TracePos(t, "check_access")
             /\ TracePos(t, "check_access") < TracePos(t, "check_version_is_valid")
             /\ TracePos(t, "check_version_is_valid")
                  < TracePos(t, "ensure_importing_queue_exists")
             /\ TracePos(t, "ensure_importing_queue_exists") < TracePos(t, "enqueue_job")
        /\ (a.valid /\ a.allowed /\ ~a.version_valid) =>
             /\ upsert'.outcome = "ValidationError"
             /\ queues' = queues
             /\ TracePos(t, "enqueue_job") = 0
        /\ (a.valid /\ a.allowed /\ a.version_valid) =>
             /\ upsert'.outcome = "queued"
             /\ "importing" \in DOMAIN queues'
             /\ Len(queues'["importing"])
                  = 1 + (IF "importing" \in DOMAIN queues
                           THEN Len(queues["importing"]) ELSE 0)
             /\ \A q \in DOMAIN queues :
                  SubSeq(queues'[q], 1, Len(queues[q])) = queues[q]
             /\ DOMAIN queues' = DOMAIN queues \cup {"importing"}]_vars

\* a call was refused for its version with a job of an earlier call on the
\* queue
C29_Witness ==
  /\ upsert.outcome = "ValidationError"
  /\ Len(upsert.trace) = 3
  /\ "importing" \in DOMAIN queues
  /\ Len(queues["importing"]) = 1

\* a second job was queued
C29_WitnessQueued ==
  /\ upsert.outcome = "queued"
  /\ Len(queues["importing"]) = 2

\* ------------------------------------------------------------------------
\* datastore_get_resource_versions, logic/action.py
\* ------------------------------------------------------------------------
\* largest number of pages the backend cuts the versions of a resource into
MaxPages == 3

\* a bucket of the composite aggregation, and the entry the action makes of
\* it
Bucket(version, doc_count) == [key |-> [version |-> version], doc_count |-> doc_count]
VersionEntry(bucket) == [version |-> bucket.key.version, changes |-> bucket.doc_count]

\* result.get(u'after_key', {}).get(u'version', None)
AfterOf(result) ==
  IF "after_key" \in DOMAIN result /\ "version" \in DOMAIN result.after_key
    THEN result.after_key.version
    ELSE NoneV

\* the loop leaving when the new after is falsy, 0 included
versions_page_Falsy(c, result) ==
  LET versions == c.versions
                    \o [i \in 1..Len(result.buckets) |-> VersionEntry(result.buckets[i])]
      after == AfterOf(result)
      stop == after \in {NoneV, NumV(0)}
  IN [pc |-> IF stop THEN "done" ELSE "running",
      after |-> after,
      versions |-> versions,
      requests |-> Append(c.requests, c.after),
      responses |-> Append(c.responses, result),
      result |-> IF stop THEN versions ELSE <<>>]

\* one turn of the while loop on the call c, result being the versions
\* aggregation of the response: the request carries c.after when it is not
\* None, the buckets are appended, and the loop ends when the new after is
\* None
versions_page(c, result) ==
  LET versions == c.versions
                    \o [i \in 1..Len(result.buckets) |-> VersionEntry(result.buckets[i])]
      after == AfterOf(result)
  IN [pc |-> IF after = NoneV THEN "done" ELSE "running",
      after |-> after,
      versions |-> versions,
      requests |-> Append(c.requests, c.after),
      responses |-> Append(c.responses, result),
      result |-> IF after = NoneV THEN versions ELSE <<>>]

\* the pages a backend can answer with: the buckets, and the after_key when
\* there is one (a version of 0 among them)
BucketLists ==
  {<<>>, <<Bucket(NumV(0), 1)>>, <<Bucket(NumV(1), 2), Bucket(NumV(2), 1)>>}
Responses ==
  {[buckets |-> b] : b \in BucketLists}
    \cup {[buckets |-> b, after_key |-> [version |-> NumV(v)]] :
            b \in BucketLists, v \in {0, 2}}

\* the action is called: after = None, versions = []
VersionsStart ==
  /\ versions_call.pc # "running"
  /\ versions_call' = [NoVersionsCall EXCEPT !.pc = "running"]
  /\ UNCHANGED schema
  /\ UNCHANGED <<field_cache, fields_call, feeder, queues, upsert>>

\* one request and its response; the backend gives an after_key on fewer
\* than MaxPages pages
VersionsPage(result) ==
  /\ versions_call.pc = "running"
  /\ "after_key" \in DOMAIN result => Len(versions_call.responses) + 1 < MaxPages
  /\ versions_call' = versions_page(versions_call, result)
  /\ UNCHANGED schema
  /\ UNCHANGED <<field_cache, fields_call, feeder, queues, upsert>>

VersionsRequest == \E result \in Responses : VersionsPage(result)

VersionsNext == VersionsStart \/ VersionsRequest

VersionsInit ==
  /\ geojson = InitialGeojson
  /\ query = EmptyDoc
  /\ search = NoSearch
  /\ digest = NoDigest
  /\ calls = NoCalls
  /\ loader = Loaded
  /\ DatastoreInit

\* a running call goes on: the loop makes its next request
VersionsSpec == VersionsInit /\ [][VersionsNext]_vars /\ WF_vars(VersionsRequest)

\* ------------------------------------------------------------------------
\* C30
\* ------------------------------------------------------------------------
\* the entries of the buckets of the pages, page after page
RECURSIVE AllEntries(_)
AllEntries(pages) ==
  IF pages = <<>> THEN <<>>
  ELSE AllEntries(SubSeq(pages, 1, Len(pages) - 1))
         \o [i \in 1..Len(pages[Len(pages)].buckets) |->
               VersionEntry(pages[Len(pages)].buckets[i])]

\* the paging of the call so far: the first request carries no after, each
\* later one the version of the after_key of the response before it; the
\* versions collected are the buckets of the responses in response order;
\* every response but the last has an after_key, and the call is over
\* exactly when the last one has none, returning the versions collected
PagesInOrder ==
  LET c == versions_call
      n == Len(c.responses)
  IN /\ Len(c.requests) = n
     /\ \A i \in 1..n :
          c.requests[i] = IF i = 1 THEN NoneV ELSE c.responses[i - 1].after_key.version
     /\ c.versions = AllEntries(c.responses)
     /\ \A i \in 1..(n - 1) : "after_key" \in DOMAIN c.responses[i]
     /\ c.pc = "done" <=> (n > 0 /\ "after_key" \notin DOMAIN c.responses[n])
     /\ c.pc = "done" => c.result = AllEntries(c.responses)

\* C30: datastore_get_resource_versions pages through the aggregation:
\* each request after the first passes the version of the after_key of
\* the response before it, the buckets are appended in response order, the
\* loop stops at the first response without an after_key; and against a
\* backend that gives an after_key on finitely many pages a call that is
\* running ends, returning every bucket of every page once, in page order.
C30_PagesThenStops ==
  /\ []PagesInOrder
  /\ (versions_call.pc = "running") ~> (versions_call.pc = "done")

\* a call ended on its third page after passing an after of 0 and then 2
C30_Witness ==
  /\ versions_call.pc = "done"
  /\ versions_call.requests = <<NoneV, NumV(0), NumV(2)>>
  /\ Len(versions_call.result) = 4

=============================================================================
